---- MODULE Spec2Model ----
(***************************************************************************)
(* A model of the organization health check of                            *)
(* coveooss/product-intelligence-tools (src/org_health_check):            *)
(*   - Api.call and Api.callPaged (api.py), the paged fetcher;            *)
(*   - CheckCondition.checkOne (resourcesPrivate.py), the rule evaluator  *)
(*     of query pipeline conditions;                                      *)
(*   - CheckQp.initialize, CheckField.initialize and CheckField.checkOne, *)
(*     the usage loaders and the rule evaluator of fields;                *)
(*   - start(), resources.check and CheckResource.check, one run of the   *)
(*     process over the requested resource types, with CheckIpe and       *)
(*     CheckSource as the classes of the registry.                        *)
(* Python values are modelled as records with a "kind" field, so that     *)
(* False, True, None and JSON payloads can be compared with each other.   *)
(***************************************************************************)
EXTENDS Integers, Sequences, FiniteSets, TLC

VARIABLES
    \* ---- Api.callPaged: its parameters
    arrayKey,        \* "None" or the key of the results array
    pageCountKey,    \* "None" or the key of the total page count
    startPage,       \* the first page index
    \* ---- Api.callPaged: its locals
    e,               \* the endpoint of the last request, with its parameters
    currPageNum,     \* the page index of the next request
    currResponse,    \* the last value Api.call returned
    totalResponse,   \* the accumulated items
    pc,              \* "loop" | "returned" | "failed" | "raised"
    result,          \* the value callPaged returned (PyNone until it returns)
    \* ---- the remote endpoint, as callPaged saw it
    sent,            \* the page indices requested, in request order
    wire,            \* the HTTP responses received, in request order
    served,          \* the values Api.call returned, in request order
    endpoint,        \* "stable" | "shifting": how the endpoint cuts its pages
    remote,          \* the pipelines and the conditions the platform lists
    \* ---- CheckCondition: its working context and one run of check()
    allQps,          \* self.allQps, each pipeline with its statements
    resources,       \* the conditions initialize() returned
    resIdx,          \* how many of them check() has evaluated
    msgs,            \* the messages of the last checkOne
    compared,        \* the index pairs (i, j) the last checkOne compared
    checkErr,        \* "None", or the exception the last checkOne raised
    again,           \* a second checkOne of the same resource, once it ran
    rows,            \* the rows check() handed to the writer, in order
    emitted,         \* the message lists the checkOne calls returned, in order
    \* ---- CheckQp and CheckField: the working context and one run of check()
    checker,         \* "CheckQp" | "CheckField" | "None": the class that runs
    qpWithUa,        \* self.qpWithUa (PyNone until initialize sets it)
    phase,           \* "opened" | "loaded" | "raised": where check() stands
    initErr,         \* "None", or the exception initialize() raised
    usage,           \* the facet usage records getUa returned, or False
    fieldsWithUa,    \* self.fieldsWithUa (PyNone until initialize sets it)
    searchResults,   \* the value the last runQuery returned
    queryCount,      \* self.queryCount: "None", or the count of the queries
    runsQueries,     \* self.runsQueries
    searches,        \* the search requests sent to the search API, in order
    answers,         \* the values runQuery returned, in order
    \* ---- start(): one run of the process
    requested,       \* args.resource, the keys given on the command line
    rToCheck,        \* the keys start() passes to resources.check, in order
    runIdx,          \* how many of them were passed to resources.check
    classQueue,      \* the classes the current resources.check has yet to run
    curType,         \* the key of the class whose check() runs, or "None"
    detail,          \* the value of the last per-item detail fetch
    events,          \* the steps of the checks, in order
    raised,          \* the exceptions raised, in order
    proc             \* "args" | "running" | "aborted"

vars == <<arrayKey, pageCountKey, startPage, e, currPageNum, currResponse,
          totalResponse, pc, result, sent, wire, served, endpoint, remote,
          allQps, resources, resIdx, msgs, compared, checkErr,
          again, rows, emitted,
          checker, qpWithUa,
          phase, initErr, usage, fieldsWithUa, searchResults, queryCount,
          runsQueries, searches, answers,
          requested, rToCheck, runIdx, classQueue, curType, detail, events,
          raised, proc>>

pagedVars == <<arrayKey, pageCountKey, startPage, e, currPageNum, currResponse,
               totalResponse, pc, result, sent, wire, served, endpoint,
               remote>>

condVars == <<allQps, resources, resIdx, msgs, compared, checkErr,
              again, rows, emitted>>

runVars == <<requested, rToCheck, runIdx, classQueue, curType, detail, events,
             raised, proc>>

fieldVars == <<checker, qpWithUa,
               phase, initErr, usage, fieldsWithUa, searchResults, queryCount,
               runsQueries, searches,
                   answers>>

(***************************************************************************)
(* Bounds of the model.                                                    *)
(***************************************************************************)
\* The remote endpoint answers at most MaxCalls requests of one fetch.
MaxCalls == 4
\* A page holds at most MaxPageLen items.
MaxPageLen == 2
\* The pipelines of the working context hold at most MaxStmts statements.
MaxStmts == 3
\* A ranking weight statement lists at most MaxFactors factors.
MaxFactors == 2
\* The analytics API returns at most MaxUsage facet usage records.
MaxUsage == 2
\* A search returns at most MaxTotalCount results.
MaxTotalCount == 1
\* A resource type holds at most MaxRes resources.
MaxRes == 2
\* The command line gives at most MaxRequest keys.
MaxRequest == 3
\* The platform lists at most MaxQpStmts statements of the pipeline checked.
MaxQpStmts == 2
\* The platform lists at most MaxAssoc ML associations of the pipeline.
MaxAssoc == 3

\* The only status code Api.call accepts by default.
StatusOK == 200
\* A status code outside the allowed set.
StatusError == 500
\* The average duration of an extension, in milliseconds, above which
\* checkOne reports it (0.2 seconds).
AvgDurationMillis == 200

(***************************************************************************)
(* Python values.                                                          *)
(***************************************************************************)
PyNone == [kind |-> "None", array |-> <<>>, totalPages |-> 0]
PyFalse == [kind |-> "False", array |-> <<>>, totalPages |-> 0]
PyTrue == [kind |-> "True", array |-> <<>>, totalPages |-> 0]
\* A parsed JSON payload: the results array and, where the endpoint declares
\* one, the total page count.
PyJson(arr, total) == [kind |-> "json", array |-> arr, totalPages |-> total]
\* A list callPaged returns.
PyList(items) == [kind |-> "list", array |-> items, totalPages |-> 0]

(***************************************************************************)
(* The remote endpoint.  An item is known by its identifier.  The pages of *)
(* a stable endpoint hold distinct resources: the item at position k of    *)
(* page p is <<p, k>>.  A shifting endpoint moves on by one resource per   *)
(* page, whatever the size of the page: position k of page p holds the     *)
(* resource <<0, p + k>>, so that pages of two or more items overlap.      *)
(***************************************************************************)
PageItems(p, n) ==
    IF endpoint = "shifting" THEN [k \in 1..n |-> <<0, p + k>>]
    ELSE [k \in 1..n |-> <<p, k>>]

\* The total page counts an endpoint may declare: any number up to one more
\* than the requests it answers, so that it can always declare a further page.
PageCounts == 0..(MaxCalls + 1)

\* The HTTP responses the endpoint may give to the request of page p.
HttpResponses(p) ==
    {[status |-> StatusError, empty |-> FALSE, array |-> <<>>, totalPages |-> 0],
     [status |-> StatusOK, empty |-> TRUE, array |-> <<>>, totalPages |-> 0]}
    \cup
    {[status |-> StatusOK, empty |-> FALSE, array |-> PageItems(p, n), totalPages |-> t] :
        n \in 0..MaxPageLen,
        t \in IF pageCountKey = "None" THEN {0} ELSE PageCounts}

(***************************************************************************)
(* Api.call: False when the status is not allowed, True for an empty       *)
(* successful body, the parsed JSON otherwise.                             *)
(***************************************************************************)
CallEmptyAsData(http, allowedStatusCodes) ==
    IF http.status \notin allowedStatusCodes THEN PyFalse
    ELSE PyJson(http.array, http.totalPages)

Call(http, allowedStatusCodes) ==
    IF http.status \notin allowedStatusCodes THEN PyFalse
    ELSE IF http.empty THEN PyTrue
    ELSE PyJson(http.array, http.totalPages)

(***************************************************************************)
(* Api.callPaged.                                                          *)
(***************************************************************************)
\* getCurrArray: the response itself, or its value at arrayKey.
getCurrArray(resp) == resp.array

\* totalResponse.extend(getCurrArray())
ExtendReversed(total, arr) == arr \o total

Extend(total, arr) == total \o arr

\* The value returned when a page call fails.
OnFailurePartial(total) == PyList(total)

OnFailure(total) == PyFalse

\* The condition of the while loop.
WhileCondInclusive(cur, resp) ==
    \/ cur = startPage
    \/ (pageCountKey = "None" /\ Len(getCurrArray(resp)) > 0)
    \/ (pageCountKey # "None" /\ cur <= resp.totalPages)

WhileCondCeiling(cur, resp) ==
    \/ cur = startPage
    \/ (pageCountKey = "None" /\ Len(getCurrArray(resp)) > 0 /\ cur < startPage + 2)
    \/ (pageCountKey # "None" /\ cur < resp.totalPages)

WhileCond(cur, resp) ==
    \/ cur = startPage
    \/ (pageCountKey = "None" /\ Len(getCurrArray(resp)) > 0)
    \/ (pageCountKey # "None" /\ cur < resp.totalPages)

\* The query parameters of the endpoint the caller gave, each a name and a
\* value, and the name of the page parameter: 'p' for getUa, else 'page'.
EndpointParams == <<<<"organizationId", "orgId">>, <<"perPage", "200">>>>

PageParam == IF arrayKey = "values" THEN "p" ELSE "page"

\* e = endpoint + '&' + pageParam + '=' + str(currPageNum)
BuildRequestFromLast(last, original, pageParam, page) ==
    Append(last, <<pageParam, page>>)

BuildRequest(last, original, pageParam, page) ==
    Append(original, <<pageParam, page>>)

\* Nothing is listed by the platform.
NoRemote == [qps |-> <<>>, conditions |-> <<>>]

\* The three ways the callers configure a fetch: a bare array paged until an
\* empty page, an array under a key paged until an empty page (getUa, from
\* page 1), an array under a key with a declared total page count.
PagedConfigs ==
    {<<"None", "None", 0>>, <<"None", "None", 1>>,
     <<"values", "None", 0>>, <<"values", "None", 1>>,
     <<"statements", "totalPages", 0>>, <<"statements", "totalPages", 1>>}

InitPaged ==
    /\ \E c \in PagedConfigs :
          /\ arrayKey = c[1]
          /\ pageCountKey = c[2]
          /\ startPage = c[3]
          /\ currPageNum = c[3]
    /\ e = EndpointParams
    /\ currResponse = PyNone
    /\ totalResponse = <<>>
    /\ pc = "loop"
    /\ result = PyNone
    /\ sent = <<>>
    /\ wire = <<>>
    /\ served = <<>>
    /\ remote = NoRemote

\* One iteration of the loop: request page currPageNum, then either return
\* False, raise (True is neither iterable nor subscriptable), or accumulate
\* the page and test the loop condition again.
FetchPage ==
    /\ pc = "loop"
    /\ Len(served) < MaxCalls
    /\ \E http \in HttpResponses(currPageNum) :
          LET r == Call(http, {StatusOK}) IN
          /\ e' = BuildRequest(e, EndpointParams, PageParam, currPageNum)
          /\ sent' = Append(sent, currPageNum)
          /\ wire' = Append(wire, http)
          /\ served' = Append(served, r)
          /\ currResponse' = r
          /\ IF r = PyFalse
                THEN /\ pc' = "failed"
                     /\ result' = OnFailure(totalResponse)
                     /\ UNCHANGED <<totalResponse, currPageNum>>
             ELSE IF r = PyTrue
                THEN /\ pc' = "raised"
                     /\ UNCHANGED <<result, totalResponse, currPageNum>>
             ELSE /\ totalResponse' = Extend(totalResponse, getCurrArray(r))
                  /\ currPageNum' = currPageNum + 1
                  /\ IF WhileCond(currPageNum + 1, r)
                        THEN pc' = "loop" /\ UNCHANGED result
                        ELSE pc' = "returned" /\ result' = PyList(totalResponse')
    /\ UNCHANGED <<arrayKey, pageCountKey, startPage, endpoint, remote>>
    /\ UNCHANGED condVars
    /\ UNCHANGED fieldVars
    /\ UNCHANGED runVars

\* No second checkOne has run.
NotRun == [ran |-> FALSE, msgs |-> <<>>, err |-> "None"]

InitCondIdle ==
    /\ allQps = <<>>
    /\ resources = <<>>
    /\ resIdx = 0
    /\ msgs = <<>>
    /\ compared = <<>>
    /\ checkErr = "None"
    /\ again = NotRun
    /\ rows = <<>>
    /\ emitted = <<>>

\* No run of the process is followed.
InitRunIdle ==
    /\ requested = <<>>
    /\ rToCheck = <<>>
    /\ runIdx = 0
    /\ classQueue = <<>>
    /\ curType = "None"
    /\ detail = PyNone
    /\ events = <<>>
    /\ raised = <<>>
    /\ proc = "running"

\* The field checker holds nothing: a context is loaded, no query was run.
InitFieldIdle ==
    /\ InitRunIdle
    /\ checker = "None"
    /\ qpWithUa = PyNone
    /\ phase = "loaded"
    /\ initErr = "None"
    /\ usage = PyNone
    /\ fieldsWithUa = PyNone
    /\ searchResults = PyNone
    /\ runsQueries = FALSE
    /\ queryCount = "None"
    /\ searches = <<>>
    /\ answers = <<>>

NextPaged == FetchPage

\* A fetch on its own: the checkers are idle.
InitFetch == InitPaged /\ endpoint = "stable" /\ InitCondIdle /\ InitFieldIdle

SpecPaged == InitFetch /\ [][NextPaged]_vars

\* A fetch from an endpoint whose pages overlap.
InitOverlap ==
    InitPaged /\ endpoint = "shifting" /\ InitCondIdle /\ InitFieldIdle

SpecOverlap == InitOverlap /\ [][NextPaged]_vars

(***************************************************************************)
(* Properties of Api.callPaged, checked under SpecPaged.                   *)
(***************************************************************************)
\* The concatenation of the arrays of a sequence of JSON responses.
RECURSIVE Flatten(_)
Flatten(rs) ==
    IF rs = <<>> THEN <<>>
    ELSE Flatten(SubSeq(rs, 1, Len(rs) - 1)) \o rs[Len(rs)].array

\* Non-empty pages followed by one empty page.
PagesThenEmpty(rs) ==
    /\ Len(rs) >= 1
    /\ \A i \in 1..Len(rs) :
          /\ rs[i].kind = "json"
          /\ (Len(rs[i].array) = 0) <=> (i = Len(rs))

\* Item a precedes item b at the remote endpoint.
ItemBefore(a, b) == a[1] < b[1] \/ (a[1] = b[1] /\ a[2] < b[2])

IsBare == arrayKey = "None" /\ pageCountKey = "None"

\* C1: a bare-array fetch returns exactly when the endpoint has served
\* non-empty pages followed by a first empty page, and it then returns the
\* concatenation of all the pages served, every item once and in the
\* endpoint's order.
C1_BareArrayConcat ==
    IsBare =>
        /\ (pc = "returned") <=> PagesThenEmpty(served)
        /\ pc = "returned" =>
              /\ result = PyList(Flatten(served))
              /\ \A i, j \in 1..Len(result.array) :
                    i < j => ItemBefore(result.array[i], result.array[j])

\* C1's case: three full pages and an empty one have been fetched.
C1_Witness ==
    /\ IsBare
    /\ pc = "returned"
    /\ Len(served) = 4
    /\ Len(result.array) = 3 * MaxPageLen

\* Every response so far is a JSON payload declaring t total pages.
AllDeclare(t) == \A i \in 1..Len(served) : served[i] = PyJson(served[i].array, t)

\* C2: from start page 0, when every response declares the same total t >= 1,
\* the fetch goes on until t calls are made, then returns the concatenation
\* of the t arrays in call order.
C2_PageCountCalls ==
    (pageCountKey # "None" /\ startPage = 0) =>
        \A t \in PageCounts \ {0} :
            AllDeclare(t) =>
                /\ Len(served) <= t
                /\ (pc = "returned") <=> (Len(served) = t)
                /\ (pc = "loop") <=> (Len(served) < t)
                /\ pc = "returned" => result = PyList(Flatten(served))

\* C2's case: three responses declaring three pages, the fetch has returned.
C2_Witness ==
    /\ pageCountKey # "None"
    /\ startPage = 0
    /\ AllDeclare(3)
    /\ pc = "returned"
    /\ Len(sent) = 3
    /\ Len(result.array) > 3

\* The page parameters of the last request.
PageParamsOf(request) ==
    {k \in 1..Len(request) : request[k][1] \in {"p", "page"}}

\* C26: a fetch that has ended has sent at least one request; the page
\* indices sent are startPage, startPage + 1, ... in order; every request
\* carries one page parameter, with the index of that request; and with a
\* page count key the loop goes on after a page exactly when the next
\* index is below the total the latest response declared.
C26_PageRequests ==
    /\ pc # "loop" => Len(sent) >= 1
    /\ \A k \in 1..Len(sent) : sent[k] = startPage + k - 1
    /\ Len(sent) >= 1 =>
          /\ Cardinality(PageParamsOf(e)) = 1
          /\ e[Len(e)] = <<PageParam, sent[Len(sent)]>>
          /\ SubSeq(e, 1, Len(e) - 1) = EndpointParams
    /\ (pageCountKey # "None" /\ Len(sent) >= 1 /\ currResponse.kind = "json") =>
          (pc = "loop" <=> sent[Len(sent)] + 1 < currResponse.totalPages)

\* C26's case: the first response declared no page at all and the one
\* request was sent all the same.
C26_Witness ==
    /\ pageCountKey # "None"
    /\ pc = "returned"
    /\ Len(sent) = 1
    /\ currResponse.kind = "json"
    /\ currResponse.totalPages = 0

\* C26's other case: the third request of a fetch of getUa.
C26_WitnessThird ==
    /\ PageParam = "p"
    /\ startPage = 1
    /\ sent = <<1, 2, 3>>
    /\ Len(e) = Len(EndpointParams) + 1

\* C3: a failed page call is the last call of the fetch, and the fetch then
\* returns False, not the items of the earlier pages.
C3_FailureNoPartial ==
    /\ \A i \in 1..Len(wire) :
          wire[i].status # StatusOK =>
              /\ i = Len(wire)
              /\ pc = "failed"
              /\ result = PyFalse
    /\ pc = "failed" => wire[Len(wire)].status # StatusOK

\* C3's case: a page call failed after items had been accumulated.
C3_Witness ==
    /\ pc = "failed"
    /\ Len(totalResponse) > 0
    /\ Len(wire) >= 3

\* C4: with a page count key, once the page index has reached a total the
\* endpoint declared, no further page is requested (so the fetch ends after
\* at most that many calls, even when the declared total keeps growing).
C4_StopsAtDeclaredCount ==
    pageCountKey # "None" =>
        \A i, j \in 1..Len(sent) :
            (i < j /\ served[i].kind = "json") => sent[j] < served[i].totalPages

\* C5: without a page count key the fetch returns only after an empty page or
\* a failure, which is then the last call; as long as every page served is
\* non-empty it stays in the loop and requests the next page, however many
\* pages have been fetched.
C5_NoCountKeyTermination ==
    pageCountKey = "None" =>
        /\ pc = "returned" => served[Len(served)] = PyJson(<<>>, 0)
        /\ pc = "failed" => served[Len(served)] = PyFalse
        /\ \A i \in 1..Len(served) :
              (served[i] = PyJson(<<>>, 0) \/ served[i] = PyFalse) =>
                  (i = Len(served) /\ pc \in {"returned", "failed"})
        /\ (\A i \in 1..Len(served) :
               served[i].kind = "json" /\ Len(served[i].array) > 0) =>
                  /\ pc = "loop"
                  /\ Len(served) < MaxCalls => ENABLED FetchPage

\* C5's case: every request the endpoint answered gave a non-empty page.
C5_Witness ==
    /\ pageCountKey = "None"
    /\ Len(served) = MaxCalls
    /\ \A i \in 1..Len(served) : Len(served[i].array) > 0
    /\ pc = "loop"

\* C6: an empty successful body is never returned by callPaged, neither as
\* True nor as a page of a returned list: the fetch raises on it.
C6_EmptyBodyNeverData ==
    /\ result # PyTrue
    /\ \A i \in 1..Len(wire) :
          (wire[i].status = StatusOK /\ wire[i].empty) =>
              /\ i = Len(wire)
              /\ pc = "raised"
              /\ result = PyNone

\* C6's case: an empty successful body arrived after a page of data.
C6_Witness ==
    /\ Len(wire) >= 2
    /\ wire[Len(wire)].status = StatusOK
    /\ wire[Len(wire)].empty
    /\ Len(totalResponse) > 0

(***************************************************************************)
(* CheckCondition (resourcesPrivate.py).  A statement's definition is the  *)
(* sequence of the tokens of its text: 'rank title: 7, docDate: 5' is      *)
(* <<"rank", "title", ":", "7", ",", "docDate", ":", "5">>.                *)
(***************************************************************************)
\* self.noCondition, the sentinel of initialize().
noCondition == [definition |-> "NO CONDITION", id |-> "NO CONDITION"]

\* The value of stmt['qp'] before checkOne has set it.
NoQp == [name |-> "None", id |-> "None"]

\* The pipeline a statement's 'qp' key refers to.  Pipelines have distinct
\* ids, so that two references are equal exactly when they are one pipeline.
QpRef(qp) == [name |-> qp.name, id |-> qp.id]

\* Message(name, id, reason); a reason is its text and what the text embeds.
Reason(text, count, names, defs) ==
    [text |-> text, count |-> count, names |-> names, defs |-> defs]

\* Message._fields, the header row.
Header == <<"name", "id", "reason">>

Message(condition, reason) ==
    [name |-> condition.definition, id |-> condition.id, reason |-> reason]

NotAssociated == "NOT ASSOCIATED WITH ANY QUERY PIPELINE OR STATEMENT"
SharedConflict == "CONFLICT: SHARED BY"
RedirectTrigger == "redirect trigger RUNS ON SAME CONDITION AS OTHER trigger"
MultipleQuery == "MULTIPLE query triggers"
MultipleRank == "MULTIPLE rankingweights ON SAME FACTOR"
MultipleOverride == "MULTIPLE OVERRIDE PARAMETER"

\* The pipelines that share the condition.
qpAssoc(qps, condition) ==
    SelectSeq(qps, LAMBDA qp : qp.condition.id = condition.id)

\* The statements that share the condition, in pipeline then statement order,
\* each with its pipeline saved under 'qp'.
RECURSIVE stmtAssoc(_, _)
stmtAssoc(qps, condition) ==
    IF qps = <<>> THEN <<>>
    ELSE LET qp == Head(qps)
             own == SelectSeq(qp.statements,
                              LAMBDA stmt : stmt.condition.id = condition.id)
         IN  [k \in 1..Len(own) |-> [own[k] EXCEPT !.qp = QpRef(qp)]]
             \o stmtAssoc(Tail(qps), condition)

\* The working context after checkOne: stmt['qp'] = qp stays on the statements.
AnnotateWrongKey(qps, condition) ==
    [p \in 1..Len(qps) |->
        [qps[p] EXCEPT !.statements =
            [k \in 1..Len(qps[p].statements) |->
                IF qps[p].statements[k].condition.id = condition.id
                THEN [qps[p].statements[k] EXCEPT !.condition = QpRef(qps[p])]
                ELSE qps[p].statements[k]]]]

Annotate(qps, condition) ==
    [p \in 1..Len(qps) |->
        [qps[p] EXCEPT !.statements =
            [k \in 1..Len(qps[p].statements) |->
                IF qps[p].statements[k].condition.id = condition.id
                THEN [qps[p].statements[k] EXCEPT !.qp = QpRef(qps[p])]
                ELSE qps[p].statements[k]]]]

\* if len(qpAssoc) < 1 and len(stmtAssoc) < 1
IsOrphanEither(nQp, nStmt) == nQp < 1 \/ nStmt < 1

IsOrphan(nQp, nStmt) == nQp < 1 /\ nStmt < 1

\* if len(qpAssoc) > 1 and condition != self.noCondition
IsSharedAnyCondition(nQp, condition) == nQp > 1

IsShared(nQp, condition) == nQp > 1 /\ condition # noCondition

\* for i in range(len(stmtAssoc)): for j in range(i + 1, len(stmtAssoc)),
\* with indices from 1.
InnerStartSelf(i) == i

InnerStart(i) == i + 1

RECURSIVE InnerLoop(_, _, _)
InnerLoop(i, j, n) ==
    IF j > n THEN <<>> ELSE <<<<i, j>>>> \o InnerLoop(i, j + 1, n)

RECURSIVE OuterLoop(_, _)
OuterLoop(i, n) ==
    IF i > n THEN <<>> ELSE InnerLoop(i, InnerStart(i), n) \o OuterLoop(i + 1, n)

\* s['definition'].startswith(word)
StartsWith(definition, word) == Len(definition) >= 1 /\ definition[1] = word

\* The trigger rule of one pair.
TriggerRuleAllRedirect(stmt, stmt2) ==
    IF stmt.feature # "trigger" THEN <<>>
    ELSE IF StartsWith(stmt.definition, "redirect")
            /\ StartsWith(stmt2.definition, "redirect")
         THEN <<RedirectTrigger>>
    ELSE IF StartsWith(stmt.definition, "query")
            /\ StartsWith(stmt2.definition, "query")
         THEN <<MultipleQuery>>
    ELSE <<>>

TriggerRule(stmt, stmt2) ==
    IF stmt.feature # "trigger" THEN <<>>
    ELSE IF StartsWith(stmt.definition, "redirect")
            \/ StartsWith(stmt2.definition, "redirect")
         THEN <<RedirectTrigger>>
    ELSE IF StartsWith(stmt.definition, "query")
            /\ StartsWith(stmt2.definition, "query")
         THEN <<MultipleQuery>>
    ELSE <<>>

\* re.findall('\d+', definition): the numeric tokens, in order.
NumberTokens == {"0", "1", "2", "3", "4", "5", "6", "7", "8", "9"}

FindNumbers(definition) == SelectSeq(definition, LAMBDA t : t \in NumberTokens)

\* zip(a, b) stops at the shorter sequence.
ZipLen(a, b) == IF Len(a) < Len(b) THEN Len(a) ELSE Len(b)

\* The ranking weight rule of one pair.
RankRule(stmt, stmt2) ==
    IF stmt.feature # "rankingweight" THEN <<>>
    ELSE LET a == FindNumbers(stmt.definition)
             b == FindNumbers(stmt2.definition)
         IN  IF \E k \in 1..ZipLen(a, b) :
                    a[k] # "5" /\ b[k] # "5" /\ a[k] # b[k]
             THEN <<MultipleRank>>
             ELSE <<>>

\* definition.split(':'): the segments between the colons.
RECURSIVE SplitColon(_)
SplitColon(definition) ==
    IF \A k \in 1..Len(definition) : definition[k] # ":"
    THEN <<definition>>
    ELSE LET at == CHOOSE k \in 1..Len(definition) :
                       /\ definition[k] = ":"
                       /\ \A m \in 1..(k - 1) : definition[m] # ":"
         IN  <<SubSeq(definition, 1, at - 1)>>
             \o SplitColon(SubSeq(definition, at + 1, Len(definition)))

\* parse(s) indexes [1] twice: it raises IndexError when the definition has
\* no colon or nothing after 'override '.
ParseRaises(definition) ==
    LET segs == SplitColon(definition)
    IN  \/ Len(segs) < 2
        \/ Len(segs[1]) < 2
        \/ segs[1][1] # "override"

\* parse(s): the parameter name and its value.
parse(definition) ==
    LET segs == SplitColon(definition)
    IN  <<Tail(segs[1]), segs[2]>>

\* The query parameter override rule of one pair.
OverrideRule(stmt, stmt2) ==
    IF stmt.feature # "queryParamOverride" THEN <<>>
    ELSE LET s == parse(stmt.definition)
             s2 == parse(stmt2.definition)
         IN  IF s[1] = s2[1] /\ s[2] # s2[2] THEN <<MultipleOverride>> ELSE <<>>

\* Statements in the same query pipeline that have the same feature type.
SameFeatureOnly(stmt, stmt2) == stmt.feature = stmt2.feature

SamePipelineAndFeature(stmt, stmt2) ==
    stmt.qp = stmt2.qp /\ stmt.feature = stmt2.feature

\* Whether the comparison of one pair raises.
PairRaises(stmt, stmt2) ==
    /\ SamePipelineAndFeature(stmt, stmt2)
    /\ stmt.feature = "queryParamOverride"
    /\ (ParseRaises(stmt.definition) \/ ParseRaises(stmt2.definition))

\* The messages of one pair, each through addStmtMsg.
PairMsgs(condition, stmt, stmt2) ==
    IF ~SamePipelineAndFeature(stmt, stmt2) THEN <<>>
    ELSE LET texts == TriggerRule(stmt, stmt2) \o RankRule(stmt, stmt2)
                      \o OverrideRule(stmt, stmt2)
         IN  [k \in 1..Len(texts) |->
                 Message(condition,
                         Reason(texts[k], 0, <<stmt.qp.name>>,
                                <<stmt.definition, stmt2.definition>>))]

RECURSIVE AllPairMsgs(_, _, _)
AllPairMsgs(condition, stmts, pairs) ==
    IF pairs = <<>> THEN <<>>
    ELSE PairMsgs(condition, stmts[pairs[1][1]], stmts[pairs[1][2]])
         \o AllPairMsgs(condition, stmts, Tail(pairs))

\* checkOne: its messages, the pairs it compared and the exception it raised.
checkOne(qps, condition) ==
    LET qa == qpAssoc(qps, condition)
        sa == stmtAssoc(qps, condition)
        pairs == OuterLoop(1, Len(sa))
        bad == {k \in 1..Len(pairs) : PairRaises(sa[pairs[k][1]], sa[pairs[k][2]])}
        stop == IF bad = {} THEN Len(pairs)
                ELSE CHOOSE k \in bad : \A m \in bad : k <= m
        orphan == IF IsOrphan(Len(qa), Len(sa))
                  THEN <<Message(condition, Reason(NotAssociated, 0, <<>>, <<>>))>>
                  ELSE <<>>
        shared == IF IsShared(Len(qa), condition)
                  THEN <<Message(condition,
                                 Reason(SharedConflict, Len(qa),
                                        [k \in 1..Len(qa) |-> qa[k].name], <<>>))>>
                  ELSE <<>>
    IN  IF bad = {}
        THEN [msgs |-> orphan \o shared \o AllPairMsgs(condition, sa, pairs),
              compared |-> pairs,
              err |-> "None"]
        ELSE [msgs |-> <<>>,
              compared |-> SubSeq(pairs, 1, stop),
              err |-> "IndexError"]

\* CsvWriter.writeRow, and the rows check() writes for one resource.
WriteRow(written, row) == Append(written, row)

RECURSIVE WriteAll(_, _)
WriteAll(written, messages) ==
    IF messages = <<>> THEN written
    ELSE WriteAll(WriteRow(written, Head(messages)), Tail(messages))

WriteRowsSkipSingle(written, messages) ==
    IF Len(messages) > 1 THEN WriteAll(written, messages) ELSE written

WriteRows(written, messages) ==
    IF messages # <<>> THEN WriteAll(written, messages) ELSE written

\* One iteration of check()'s loop over the resources: checkOne of the next
\* condition, its messages written.  An exception of checkOne ends the run.
CheckNext ==
    /\ resIdx < Len(resources)
    /\ checkErr = "None"
    /\ LET r == checkOne(allQps, resources[resIdx + 1]) IN
          /\ msgs' = r.msgs
          /\ compared' = r.compared
          /\ checkErr' = r.err
          /\ IF r.err = "None"
                THEN /\ rows' = WriteRows(rows, r.msgs)
                     /\ emitted' = Append(emitted, r.msgs)
                ELSE UNCHANGED <<rows, emitted>>
    /\ again' = NotRun
    /\ allQps' = Annotate(allQps, resources[resIdx + 1])
    /\ resIdx' = resIdx + 1
    /\ UNCHANGED resources
    /\ UNCHANGED pagedVars
    /\ UNCHANGED fieldVars
    /\ UNCHANGED runVars

\* No fetch is running while the conditions are checked.
InitPagedIdle ==
    /\ arrayKey = "None"
    /\ pageCountKey = "None"
    /\ startPage = 0
    /\ e = EndpointParams
    /\ currPageNum = 0
    /\ currResponse = PyNone
    /\ totalResponse = <<>>
    /\ pc = "returned"
    /\ result = PyNone
    /\ sent = <<>>
    /\ wire = <<>>
    /\ served = <<>>
    /\ endpoint = "stable"
    /\ remote = NoRemote

\* The working context initialize() builds: three pipelines, each on the
\* condition c1 or on the sentinel, holding at most MaxStmts statements in
\* all, each statement on c1 or on the sentinel.
CondC1 == [definition |-> "$query contains shoes", id |-> "c1"]

QpNames == <<"qpA", "qpB", "qpC">>

QpIds == <<"idA", "idB", "idC">>

CondChoices == {CondC1, noCondition}

Statement(feature, definition, condition) ==
    [feature |-> feature, definition |-> definition, condition |-> condition,
     qp |-> NoQp]

Pipelines(conds, owners, stmts) ==
    [p \in 1..Len(conds) |->
        [name |-> QpNames[p], id |-> QpIds[p], condition |-> conds[p],
         statements |->
            LET mine == SelectSeq([k \in 1..Len(stmts) |-> k],
                                  LAMBDA k : owners[k] = p)
            IN  [m \in 1..Len(mine) |-> stmts[mine[m]]]]]

StmtKinds ==
    {<<"trigger", <<"redirect", "u">>>>, <<"filter", <<"filter", "x">>>>}

InitCond ==
    /\ InitPagedIdle
    /\ InitFieldIdle
    /\ \E n \in 0..MaxStmts :
          \E conds \in [1..3 -> CondChoices],
             owners \in [1..n -> 1..3],
             kinds \in [1..n -> StmtKinds],
             sconds \in [1..n -> CondChoices] :
                allQps = Pipelines(conds, owners,
                            [k \in 1..n |->
                                Statement(kinds[k][1], kinds[k][2], sconds[k])])
    /\ resources = <<CondC1, noCondition>>
    /\ resIdx = 0
    /\ msgs = <<>>
    /\ compared = <<>>
    /\ checkErr = "None"
    /\ again = NotRun
    /\ rows = <<Header>>
    /\ emitted = <<>>

NextCond == CheckNext

SpecCond == InitCond /\ [][NextCond]_vars

\* checkOne run a second time on the condition check() has just evaluated,
\* against the working context the first run left.
CheckAgain ==
    /\ resIdx >= 1
    /\ checkErr = "None"
    /\ ~again.ran
    /\ LET r == checkOne(allQps, resources[resIdx]) IN
          again' = [ran |-> TRUE, msgs |-> r.msgs, err |-> r.err]
    /\ allQps' = Annotate(allQps, resources[resIdx])
    /\ UNCHANGED <<resources, resIdx, msgs, compared, checkErr, rows, emitted>>
    /\ UNCHANGED pagedVars
    /\ UNCHANGED fieldVars
    /\ UNCHANGED runVars

NextIdem == CheckNext \/ CheckAgain

SpecIdem == InitCond /\ [][NextIdem]_vars

(***************************************************************************)
(* Two ranking weight statements of one pipeline on one condition, their   *)
(* definitions listing up to MaxFactors of the ranking factors, each with  *)
(* a weight.                                                               *)
(***************************************************************************)
RankFactors == {"docDate", "summary", "title"}

RankWeights == {"5", "7", "9"}

\* The tokens of 'rank f1: w1, f2: w2, ...'.
RECURSIVE RankTokens(_, _)
RankTokens(factors, weights) ==
    IF factors = <<>> THEN <<"rank">>
    ELSE LET n == Len(factors)
             front == RankTokens(SubSeq(factors, 1, n - 1), SubSeq(weights, 1, n - 1))
         IN  front \o (IF n > 1 THEN <<",">> ELSE <<>>)
                   \o <<factors[n], ":", weights[n]>>

RankDefs ==
    UNION {{RankTokens(fs, ws) :
               fs \in {f \in [1..n -> RankFactors] :
                          \A i, j \in 1..n : i # j => f[i] # f[j]},
               ws \in [1..n -> RankWeights]} : n \in 1..MaxFactors}

InitRank ==
    /\ InitPagedIdle
    /\ InitFieldIdle
    /\ \E d1 \in RankDefs, d2 \in RankDefs, c \in CondChoices :
          allQps = Pipelines(<<noCondition>>, <<1, 1>>,
                             <<Statement("rankingweight", d1, c),
                               Statement("rankingweight", d2, c)>>)
    /\ resources = <<CondC1, noCondition>>
    /\ resIdx = 0
    /\ msgs = <<>>
    /\ compared = <<>>
    /\ checkErr = "None"
    /\ again = NotRun
    /\ rows = <<Header>>
    /\ emitted = <<>>

SpecRank == InitRank /\ [][NextCond]_vars

(***************************************************************************)
(* Two query parameter override statements of one pipeline on one          *)
(* condition.  A definition is 'override query <name>:<value>', its value  *)
(* holding a colon or not; one definition has no colon at all.             *)
(***************************************************************************)
OverrideNames == {"aq", "lq"}

OverrideValues == {<<"a">>, <<"b">>, <<"a", ":", "b">>, <<"a", ":", "c">>}

OverrideDefs ==
    {<<"override", "query", n, ":">> \o v : n \in OverrideNames, v \in OverrideValues}
    \cup {<<"override", "query", "lq">>}

InitOverride ==
    /\ InitPagedIdle
    /\ InitFieldIdle
    /\ \E d1 \in OverrideDefs, d2 \in OverrideDefs, c \in CondChoices :
          allQps = Pipelines(<<noCondition>>, <<1, 1>>,
                             <<Statement("queryParamOverride", d1, c),
                               Statement("queryParamOverride", d2, c)>>)
    /\ resources = <<CondC1, noCondition>>
    /\ resIdx = 0
    /\ msgs = <<>>
    /\ compared = <<>>
    /\ checkErr = "None"
    /\ again = NotRun
    /\ rows = <<Header>>
    /\ emitted = <<>>

SpecOverride == InitOverride /\ [][NextCond]_vars

(***************************************************************************)
(* Two pipelines holding at most MaxStmts statements of six kinds, all on  *)
(* the condition c1 but at most one, which has no condition.  The          *)
(* definition of the k-th statement ends with the k-th tag, so that no two *)
(* definitions are equal and two ranking weights, or two overrides, always *)
(* differ.                                                                 *)
(***************************************************************************)
Tags == <<"1", "2", "3", "4", "6", "7", "8", "9">>

PairKinds ==
    {<<"trigger", <<"redirect">>>>, <<"trigger", <<"query">>>>,
     <<"trigger", <<"notify">>>>,
     <<"rankingweight", <<"rank", "title", ":">>>>,
     <<"queryParamOverride", <<"override", "query", "lq", ":">>>>,
     <<"filter", <<"filter">>>>}

InitPairs ==
    /\ InitPagedIdle
    /\ InitFieldIdle
    /\ \E n \in 0..MaxStmts :
          \E owners \in [1..n -> 1..2],
             kinds \in [1..n -> PairKinds],
             off \in 0..n :
                allQps = Pipelines(<<noCondition, noCondition>>, owners,
                            [k \in 1..n |->
                                Statement(kinds[k][1],
                                          Append(kinds[k][2], Tags[k]),
                                          IF k = off THEN noCondition
                                                     ELSE CondC1)])
    /\ resources = <<CondC1, noCondition>>
    /\ resIdx = 0
    /\ msgs = <<>>
    /\ compared = <<>>
    /\ checkErr = "None"
    /\ again = NotRun
    /\ rows = <<Header>>
    /\ emitted = <<>>

SpecPairs == InitPairs /\ [][NextCond]_vars

(***************************************************************************)
(* CheckCondition.initialize.  The platform lists two pipelines, each      *)
(* under its own name or under the name of an A/B test copy                *)
(* ('qpA-mirror-1', the tokens "qpA", "-mirror-", "1"), with or without a  *)
(* condition, holding at most MaxStmts redirect triggers in all, each with *)
(* or without a condition, and the one condition c1.                       *)
(***************************************************************************)
\* The condition of a pipeline without condition (None), and what stands
\* for the missing 'condition' key of a statement.
Null == [definition |-> "None", id |-> "None"]

\* '-mirror-' not in qp['name']
NotMirrorAny(name) == TRUE

NotMirror(name) == \A k \in 1..Len(name) : name[k] # "-mirror-"

\* The sentinel in the place of a missing condition.
OrNoCondition(condition) == IF condition = Null THEN noCondition ELSE condition

\* self.allQps once the loop of initialize() has run.
LoadQps(listed) ==
    LET kept == SelectSeq(listed, LAMBDA qp : NotMirror(qp.name)) IN
    [p \in 1..Len(kept) |->
        [kept[p] EXCEPT
            !.condition = OrNoCondition(@),
            !.statements =
                [k \in 1..Len(@) |->
                    [@[k] EXCEPT !.condition = OrNoCondition(@)]]]]

\* ret.append(self.noCondition)
LoadConditions(listed) == Append(listed, noCondition)

RemoteNames == <<{<<"qpA">>, <<"qpA", "-mirror-", "1">>},
                 {<<"qpB">>, <<"qpB", "-mirror-", "2">>}>>

RemoteQps(names, conds, owners, stmts) ==
    [p \in 1..Len(names) |->
        [name |-> names[p], id |-> QpIds[p], condition |-> conds[p],
         statements |->
            LET mine == SelectSeq([k \in 1..Len(stmts) |-> k],
                                  LAMBDA k : owners[k] = p)
            IN  [m \in 1..Len(mine) |-> stmts[mine[m]]]]]

\* initialize(): the three fetches, any of which may fail and then raises
\* (a False is neither iterable nor has it an append), else the working
\* context and the conditions with the sentinel.
CondInitialize ==
    /\ phase = "opened"
    /\ checker = "CheckCondition"
    /\ \/ /\ allQps' = LoadQps(remote.qps)
          /\ resources' = LoadConditions(remote.conditions)
          /\ phase' = "loaded"
          /\ UNCHANGED initErr
       \/ /\ initErr' \in {"TypeError", "AttributeError"}
          /\ phase' = "raised"
          /\ UNCHANGED <<allQps, resources>>
    /\ UNCHANGED <<resIdx, msgs, compared, checkErr, again, rows, emitted>>
    /\ UNCHANGED <<checker, qpWithUa, usage, fieldsWithUa, searchResults,
                   queryCount, runsQueries, searches,
                   answers>>
    /\ UNCHANGED pagedVars
    /\ UNCHANGED runVars

InitLoad ==
    /\ arrayKey = "None"
    /\ pageCountKey = "None"
    /\ startPage = 0
    /\ e = EndpointParams
    /\ currPageNum = 0
    /\ currResponse = PyNone
    /\ totalResponse = <<>>
    /\ pc = "returned"
    /\ result = PyNone
    /\ sent = <<>>
    /\ wire = <<>>
    /\ served = <<>>
    /\ endpoint = "stable"
    /\ \E n \in 0..MaxStmts :
          \E names \in RemoteNames[1] \X RemoteNames[2],
             conds \in [1..2 -> {Null, CondC1}],
             owners \in [1..n -> 1..2],
             sconds \in [1..n -> {Null, CondC1}] :
                remote = [qps |-> RemoteQps(names, conds, owners,
                                     [k \in 1..n |->
                                         Statement("trigger",
                                                   <<"redirect", Tags[k]>>,
                                                   sconds[k])]),
                          conditions |-> <<CondC1>>]
    /\ InitRunIdle
    /\ InitCondIdle
    /\ checker = "CheckCondition"
    /\ qpWithUa = PyNone
    /\ phase = "opened"
    /\ initErr = "None"
    /\ usage = PyNone
    /\ fieldsWithUa = PyNone
    /\ searchResults = PyNone
    /\ runsQueries = FALSE
    /\ queryCount = "None"
    /\ searches = <<>>
    /\ answers = <<>>

NextLoad == CondInitialize \/ CheckNext

SpecLoad == InitLoad /\ [][NextLoad]_vars

\* C19: the collection a fetch returns never holds two resources with the
\* same identifier, whatever pages the endpoint serves.
C19_NoDuplicateIds ==
    pc = "returned" =>
        \A i, j \in 1..Len(result.array) :
            i # j => result.array[i] # result.array[j]

(***************************************************************************)
(* Properties of CheckCondition.checkOne.                                  *)
(***************************************************************************)
\* The condition the last checkOne evaluated.
LastChecked == resources[resIdx]

\* The pipelines, and the statements, of the working context that refer to
\* the condition.
QpsOn(condition) ==
    {p \in 1..Len(allQps) : allQps[p].condition.id = condition.id}

StmtsOn(condition) ==
    UNION {{<<p, k>> : k \in {m \in 1..Len(allQps[p].statements) :
                                allQps[p].statements[m].condition.id = condition.id}} :
           p \in 1..Len(allQps)}

\* The messages of the last checkOne with the given text.
MsgsWith(text) == {k \in 1..Len(msgs) : msgs[k].reason.text = text}

\* C7: for the N statements on the evaluated condition checkOne compares
\* exactly N*(N-1)/2 pairs, each an (i, j) with i < j, and every unordered
\* pair of distinct statements exactly once.
C7_PairwiseOnce ==
    (resIdx >= 1 /\ checkErr = "None") =>
        LET n == Cardinality(StmtsOn(LastChecked)) IN
        /\ 2 * Len(compared) = n * (n - 1)
        /\ \A k \in 1..Len(compared) :
              /\ compared[k][1] \in 1..n
              /\ compared[k][2] \in 1..n
              /\ compared[k][1] < compared[k][2]
        /\ \A i, j \in 1..n :
              i < j => Cardinality({k \in 1..Len(compared) :
                                       compared[k] = <<i, j>>}) = 1

\* C7's case: MaxStmts statements on the evaluated condition.
C7_Witness ==
    /\ resIdx >= 1
    /\ Cardinality(StmtsOn(LastChecked)) = MaxStmts
    /\ Len(compared) >= 3

\* The weight a ranking weight definition gives a factor.
HasFactor(definition, f) == \E k \in 1..Len(definition) : definition[k] = f

WeightOf(definition, f) ==
    definition[(CHOOSE k \in 1..Len(definition) : definition[k] = f) + 2]

\* C8: two ranking weight statements of one pipeline on the evaluated
\* condition give the 'MULTIPLE rankingweights ON SAME FACTOR' message
\* exactly when some factor has differing weights in the two, neither of
\* them the neutral 5.
C8_RankSameFactor ==
    (resIdx >= 1 /\ Cardinality(StmtsOn(LastChecked)) = 2) =>
        LET d1 == allQps[1].statements[1].definition
            d2 == allQps[1].statements[2].definition
        IN  (MsgsWith(MultipleRank) # {}) <=>
                \E f \in RankFactors :
                    /\ HasFactor(d1, f)
                    /\ HasFactor(d2, f)
                    /\ WeightOf(d1, f) # WeightOf(d2, f)
                    /\ WeightOf(d1, f) # "5"
                    /\ WeightOf(d2, f) # "5"

\* The position of the first colon of a definition (0 when it has none),
\* the parameter name before it and the value after it.
FirstColon(definition) ==
    IF \E k \in 1..Len(definition) : definition[k] = ":"
    THEN CHOOSE k \in 1..Len(definition) :
             /\ definition[k] = ":"
             /\ \A m \in 1..(k - 1) : definition[m] # ":"
    ELSE 0

ParamName(definition) == SubSeq(definition, 2, FirstColon(definition) - 1)

ParamValue(definition) ==
    SubSeq(definition, FirstColon(definition) + 1, Len(definition))

\* C20: two query parameter override statements of one pipeline on the
\* evaluated condition give the 'MULTIPLE OVERRIDE PARAMETER' message
\* exactly when they name the same parameter with differing values, the
\* value being everything after the first colon.
C20_OverrideConflict ==
    (resIdx >= 1 /\ Cardinality(StmtsOn(LastChecked)) = 2) =>
        LET d1 == allQps[1].statements[1].definition
            d2 == allQps[1].statements[2].definition
        IN  (FirstColon(d1) > 0 /\ FirstColon(d2) > 0) =>
                /\ checkErr = "None"
                /\ (MsgsWith(MultipleOverride) # {}) <=>
                       (ParamName(d1) = ParamName(d2)
                          /\ ParamValue(d1) # ParamValue(d2))

\* The statement at position k of pipeline p, and the positions of the
\* messages of the last checkOne about the pair of definitions d1, d2.
StmtAt(pk) == allQps[pk[1]].statements[pk[2]]

PairMsgsOf(d1, d2, text) ==
    {m \in 1..Len(msgs) :
        /\ msgs[m].reason.text = text
        /\ msgs[m].reason.defs \in {<<d1, d2>>, <<d2, d1>>}}

IsRedirect(definition) == definition[1] = "redirect"

IsQuery(definition) == definition[1] = "query"

\* C21: a pair of trigger statements of one pipeline on the evaluated
\* condition gets exactly one 'redirect trigger RUNS ON SAME CONDITION AS
\* OTHER trigger' message when one of them is a redirect trigger; else
\* exactly one 'MULTIPLE query triggers' message when both are query
\* triggers; else none.  No pair gets both.
C21_TriggerRule ==
    (resIdx >= 1 /\ checkErr = "None") =>
        \A a, b \in StmtsOn(LastChecked) :
            (a[1] = b[1] /\ a[2] < b[2]
               /\ StmtAt(a).feature = "trigger"
               /\ StmtAt(b).feature = "trigger") =>
                LET d1 == StmtAt(a).definition
                    d2 == StmtAt(b).definition
                    redirects == Cardinality(PairMsgsOf(d1, d2, RedirectTrigger))
                    queries == Cardinality(PairMsgsOf(d1, d2, MultipleQuery))
                IN  IF IsRedirect(d1) \/ IsRedirect(d2)
                        THEN redirects = 1 /\ queries = 0
                    ELSE IF IsQuery(d1) /\ IsQuery(d2)
                        THEN redirects = 0 /\ queries = 1
                    ELSE redirects = 0 /\ queries = 0

\* C21's case: a redirect and a query trigger of one pipeline on the
\* evaluated condition, with their message.
C21_Witness ==
    /\ resIdx >= 1
    /\ \E a, b \in StmtsOn(LastChecked) :
          /\ a[1] = b[1]
          /\ StmtAt(a).feature = "trigger"
          /\ StmtAt(b).feature = "trigger"
          /\ IsRedirect(StmtAt(a).definition)
          /\ IsQuery(StmtAt(b).definition)
    /\ MsgsWith(RedirectTrigger) # {}

ConflictTexts == {RedirectTrigger, MultipleQuery, MultipleRank, MultipleOverride}

ConflictFeatures == {"trigger", "rankingweight", "queryParamOverride"}

\* The positions (pipeline, statement) of all the statements.
AllStmts ==
    UNION {{<<p, k>> : k \in 1..Len(allQps[p].statements)} : p \in 1..Len(allQps)}

Eligible(a, b) ==
    /\ a \in StmtsOn(LastChecked)
    /\ b \in StmtsOn(LastChecked)
    /\ a[1] = b[1]
    /\ a[2] # b[2]
    /\ StmtAt(a).feature = StmtAt(b).feature
    /\ StmtAt(a).feature \in ConflictFeatures

\* C22: every statement conflict message is about two statements on the
\* evaluated condition, of one pipeline and one feature type among
\* trigger, rankingweight and queryParamOverride; no other pair of
\* statements gets one.
C22_ConflictsOnlyWithinPipelineAndFeature ==
    (resIdx >= 1 /\ checkErr = "None") =>
        /\ \A m \in 1..Len(msgs) :
              msgs[m].reason.text \in ConflictTexts =>
                  \E a, b \in AllStmts :
                      /\ Eligible(a, b)
                      /\ msgs[m].reason.defs
                            = <<StmtAt(a).definition, StmtAt(b).definition>>
                      /\ msgs[m].reason.names = <<allQps[a[1]].name>>
        /\ \A a, b \in AllStmts :
              (a # b /\ ~Eligible(a, b)) =>
                  \A text \in ConflictTexts :
                      PairMsgsOf(StmtAt(a).definition, StmtAt(b).definition,
                                 text) = {}

\* C22's case: two ranking weights on the evaluated condition in different
\* pipelines, which get no message, beside two of one pipeline, which do.
C22_Witness ==
    /\ resIdx >= 1
    /\ \E a, b, c \in StmtsOn(LastChecked) :
          /\ a[1] = b[1] /\ a[2] # b[2] /\ c[1] # a[1]
          /\ StmtAt(a).feature = "rankingweight"
          /\ StmtAt(b).feature = "rankingweight"
          /\ StmtAt(c).feature = "rankingweight"
    /\ Cardinality(MsgsWith(MultipleRank)) = 1

\* C9: a condition no pipeline and no statement refers to gets exactly the
\* one 'NOT ASSOCIATED ...' message; a condition exactly one pipeline and no
\* statement refers to gets no message.
C9_OrphanDetection ==
    resIdx >= 1 =>
        LET c == LastChecked
            nQp == Cardinality(QpsOn(c))
            nStmt == Cardinality(StmtsOn(c))
        IN  /\ (nQp = 0 /\ nStmt = 0) =>
                   msgs = <<Message(c, Reason(NotAssociated, 0, <<>>, <<>>))>>
            /\ (nQp = 1 /\ nStmt = 0) => msgs = <<>>
            /\ (nQp > 0 \/ nStmt > 0) => MsgsWith(NotAssociated) = {}

\* C9's case: the evaluated condition is referred to by nothing.
C9_Witness ==
    /\ resIdx >= 1
    /\ LastChecked = CondC1
    /\ QpsOn(LastChecked) = {}
    /\ StmtsOn(LastChecked) = {}
    /\ Len(msgs) = 1

\* C10: a condition other than the sentinel that k >= 2 pipelines refer to
\* gets exactly one 'CONFLICT: SHARED BY k QUERY PIPELINES' message, which
\* names each of those pipelines once; the sentinel never gets it.
C10_SharedConflict ==
    resIdx >= 1 =>
        LET c == LastChecked
            on == QpsOn(c)
            conflicts == MsgsWith(SharedConflict)
        IN  /\ (c # noCondition /\ Cardinality(on) >= 2) =>
                   /\ Cardinality(conflicts) = 1
                   /\ \A m \in conflicts :
                         /\ msgs[m].name = c.definition
                         /\ msgs[m].id = c.id
                         /\ msgs[m].reason.count = Cardinality(on)
                         /\ Len(msgs[m].reason.names) = Cardinality(on)
                         /\ {msgs[m].reason.names[k] :
                                k \in 1..Len(msgs[m].reason.names)}
                            = {allQps[p].name : p \in on}
            /\ (c # noCondition /\ Cardinality(on) < 2) => conflicts = {}
            /\ c = noCondition => conflicts = {}

\* C10's case: the three pipelines share the condition c1.
C10_Witness ==
    /\ resIdx >= 1
    /\ LastChecked = CondC1
    /\ Cardinality(QpsOn(CondC1)) = 3
    /\ MsgsWith(SharedConflict) # {}

(***************************************************************************)
(* CheckField (resourcesPrivate.py): the facet usage loader and the rule   *)
(* evaluator of fields.  A field name is a sequence of tokens, as          *)
(* <<"@", "author", "_", "2">> for '@author_2'.                            *)
(***************************************************************************)
\* The value Api.call returns for a search: the parsed payload carries the
\* total count of the results.
SearchValue(r, totalCount, pipeline) ==
    [kind |-> r.kind, array |-> r.array, totalPages |-> r.totalPages,
     totalCount |-> totalCount, pipeline |-> pipeline]

\* The HTTP responses the search endpoint may give.
SearchResponses ==
    {[status |-> StatusError, empty |-> FALSE, array |-> <<>>, totalPages |-> 0,
      totalCount |-> 0, pipeline |-> "None"],
     [status |-> StatusOK, empty |-> TRUE, array |-> <<>>, totalPages |-> 0,
      totalCount |-> 0, pipeline |-> "None"]}
    \cup
    {[status |-> StatusOK, empty |-> FALSE, array |-> <<>>, totalPages |-> 0,
      totalCount |-> n, pipeline |-> "empty"] : n \in 0..MaxTotalCount}

\* runQuery: False when the checker does not run queries, else the value of
\* Api.call.
runQuery(runs, http) ==
    IF ~runs THEN SearchValue(PyFalse, 0, "None")
    ELSE SearchValue(Call(http, {StatusOK}), http.totalCount, http.pipeline)

\* The queryParams of a search: the pipeline, viewAllContent and q.
SearchRequest(pipeline, q) ==
    [pipeline |-> pipeline, viewAllContent |-> TRUE, q |-> q]

\* The search requests sent once runQuery has run with queryParams.
IssueSearch(log, runs, queryParams) ==
    IF ~runs THEN log ELSE Append(log, queryParams)

\* self.queryCount once runQuery has returned sr.
queryCountAfterSuccess(runs, count, sr) ==
    IF ~runs \/ sr.kind = "False" THEN count ELSE count + 1

queryCountAfter(runs, count, sr) == IF ~runs THEN count ELSE count + 1

\* name.startswith('@')
StartsWithAt(name) == Len(name) >= 1 /\ name[1] = "@"

\* The normalised name of a usage record.
NormalizeAsIs(name) == name

Normalize(name) == IF StartsWithAt(name) THEN name ELSE <<"@">> \o name

\* re.search(r'_\d+$', name)
HasNumberSuffix(name) ==
    /\ Len(name) >= 2
    /\ name[Len(name) - 1] = "_"
    /\ name[Len(name)] \in NumberTokens

\* The loop of initialize() over the usage records: the names appended to
\* self.fieldsWithUa, and the exception that ended the loop, if any.
RECURSIVE UsageLoopDropping(_, _)
UsageLoopDropping(records, acc) ==
    IF records = <<>> THEN [aux |-> acc, err |-> "None"]
    ELSE IF Head(records).OccurrenceCount <= 0
            THEN UsageLoopDropping(Tail(records), acc)
    ELSE LET name == Normalize(Head(records).c_facetid) IN
         UsageLoopDropping(Tail(records),
                   IF HasNumberSuffix(name) THEN acc ELSE Append(acc, name))

RECURSIVE UsageLoop(_, _)
UsageLoop(records, acc) ==
    IF records = <<>> THEN [aux |-> acc, err |-> "None"]
    ELSE IF Head(records).OccurrenceCount <= 0
            THEN [aux |-> acc, err |-> "ValueError"]
    ELSE LET name == Normalize(Head(records).c_facetid) IN
         UsageLoop(Tail(records),
                   IF HasNumberSuffix(name) THEN acc ELSE Append(acc, name))

\* The type the admin console shows for the type the API returns.
typeMap(fieldType) ==
    CASE fieldType = "Date" -> "Date"
      [] fieldType = "Double" -> "Decimal"
      [] fieldType = "LargeString" -> "String"
      [] fieldType = "Long" -> "Integer 32"
      [] fieldType = "Long64" -> "Integer 64"
      [] OTHER -> fieldType

\* The types that are always Facet and Sortable.
AlwaysFacet == {"Integer 32", "Integer 64", "Decimal", "Date"}

CannotSearch == "CANNOT GET SEARCH RESULTS FOR FIELD"
NoValue == "FIELD HAS NO VALUE IN THE INDEX"
FreeText == "Free-Text Searchable"
Displayable == "Displayable in Results"
Sortable == "Sortable impacts caching"
FacetUnused == "Facet but not used as facet"

FieldMessage(name, fType, text) ==
    [name |-> name, id |-> fType, reason |-> Reason(text, 0, <<>>, <<>>)]

InSeq(x, seq) == \E k \in 1..Len(seq) : seq[k] = x

\* The condition of the facet usage advisory.
IsUnusedFacetAnyUsage(field, fType, aux) ==
    (field.groupByField /\ fType \notin AlwaysFacet) \/ field.splitGroupByField

IsUnusedFacet(field, fType, aux) ==
    /\ (field.groupByField /\ fType \notin AlwaysFacet) \/ field.splitGroupByField
    /\ ~InSeq(field.name, aux)

\* searchResults['totalCount'] < 1
NoValuesBelowZero(sr) == sr.totalCount < 0

NoValues(sr) == sr.totalCount < 1

\* CheckField.checkOne, given the value runQuery returned.
FieldCheckOne(field, sr, aux) ==
    LET fType == typeMap(field.fieldType)
        M(text) == <<FieldMessage(field.name, fType, text)>>
    IN  IF sr.kind = "False"
            THEN [msgs |-> M(CannotSearch), err |-> "None"]
        ELSE IF sr.kind = "True"
            THEN [msgs |-> <<>>, err |-> "TypeError"]
        ELSE IF NoValues(sr)
            THEN [msgs |-> M(NoValue), err |-> "None"]
        ELSE [msgs |->
                 (IF field.includeInQuery THEN M(FreeText) ELSE <<>>)
                 \o (IF field.includeInResults THEN M(Displayable) ELSE <<>>)
                 \o (IF field.sortByField /\ fType \notin AlwaysFacet
                        THEN M(Sortable) ELSE <<>>)
                 \o (IF IsUnusedFacet(field, fType, aux)
                        THEN M(FacetUnused) ELSE <<>>),
              err |-> "None"]

\* The fields the index may hold.
FieldTypes == {"Date", "Double", "LargeString", "Long", "Long64"}

Fields ==
    [name : {<<"@", "author">>},
     fieldType : FieldTypes,
     includeInQuery : BOOLEAN,
     includeInResults : BOOLEAN,
     sortByField : BOOLEAN,
     groupByField : BOOLEAN,
     splitGroupByField : BOOLEAN]

\* The usage records the analytics API may return.
UsageNames ==
    {<<"author">>, <<"@", "author">>, <<"@", "author", "_", "2">>,
     <<"title", "_", "7">>}

UsageRecords ==
    [c_facetid : UsageNames, OccurrenceCount : {0, 1}]
    \cup {[c_facetid |-> <<"author">>, OccurrenceCount |-> -1]}

\* The loop of CheckQp.initialize over the usage records: the exception it
\* raises, if any.
QpUsageCheck(records) ==
    IF \E k \in 1..Len(records) : records[k].OccurrenceCount <= 0
    THEN "ValueError" ELSE "None"

\* The usage records of the pipelines, and the pipelines the API may list.
QpUsageRecords == [QUERYPIPELINE : {"qpA", "qpB"}, OccurrenceCount : {-1, 0, 1}]

QpLists ==
    {<<>>, <<[name |-> "qpA", id |-> "idA"]>>,
     <<[name |-> "qpA", id |-> "idA"], [name |-> "qpB", id |-> "idB"]>>}

\* CheckQp.initialize, and the len(resources) of check(): the usage check,
\* the names kept in self.qpWithUa, then the list of the pipelines, which is
\* False when its fetch failed.
QpInitialize ==
    /\ phase = "opened"
    /\ checker = "CheckQp"
    /\ IF usage.kind = "False"
          THEN /\ initErr' = "TypeError"
               /\ phase' = "raised"
               /\ UNCHANGED <<qpWithUa, resources, checkErr>>
       ELSE IF QpUsageCheck(usage.array) # "None"
          THEN /\ initErr' = QpUsageCheck(usage.array)
               /\ phase' = "raised"
               /\ UNCHANGED <<qpWithUa, resources, checkErr>>
       ELSE /\ qpWithUa' = PyList([k \in 1..Len(usage.array) |->
                                      usage.array[k].QUERYPIPELINE])
            /\ initErr' = "None"
            /\ \/ /\ phase' = "raised"
                  /\ checkErr' = "TypeError"
                  /\ UNCHANGED resources
               \/ /\ \E qps \in QpLists : resources' = qps
                  /\ phase' = "loaded"
                  /\ UNCHANGED checkErr
    /\ UNCHANGED <<checker, usage, fieldsWithUa, searchResults, queryCount,
                   runsQueries, searches,
                   answers>>
    /\ UNCHANGED <<allQps, resIdx, msgs, compared, again, rows, emitted>>
    /\ UNCHANGED pagedVars
    /\ UNCHANGED runVars

\* CheckField.initialize: the usage loop, then the list of the fields.
FieldInitialize ==
    /\ phase = "opened"
    /\ checker = "CheckField"
    /\ IF usage.kind = "False"
          THEN /\ fieldsWithUa' = PyList(<<>>)
               /\ initErr' = "TypeError"
               /\ phase' = "raised"
               /\ UNCHANGED resources
       ELSE LET r == UsageLoop(usage.array, <<>>) IN
            /\ fieldsWithUa' = PyList(r.aux)
            /\ IF r.err # "None"
                  THEN /\ initErr' = r.err
                       /\ phase' = "raised"
                       /\ UNCHANGED resources
               ELSE \/ /\ initErr' = "TypeError"
                       /\ phase' = "raised"
                       /\ UNCHANGED resources
                    \/ /\ \E f \in Fields : resources' = <<f>>
                       /\ initErr' = "None"
                       /\ phase' = "loaded"
    /\ UNCHANGED <<checker, qpWithUa, usage, searchResults, queryCount,
                   runsQueries, searches,
                   answers>>
    /\ UNCHANGED <<allQps, resIdx, msgs, compared, checkErr, again, rows, emitted>>
    /\ UNCHANGED pagedVars
    /\ UNCHANGED runVars

\* One iteration of check()'s loop over the fields: checkOne of the next
\* field, which runs one query.
FieldCheckNext ==
    /\ phase = "loaded"
    /\ checker = "CheckField"
    /\ resIdx < Len(resources)
    /\ checkErr = "None"
    /\ \E http \in SearchResponses :
          LET sr == runQuery(runsQueries, http)
              r == FieldCheckOne(resources[resIdx + 1], sr, fieldsWithUa.array)
          IN  /\ searchResults' = sr
              /\ queryCount' = queryCountAfter(runsQueries, queryCount, sr)
              /\ msgs' = r.msgs
              /\ checkErr' = r.err
              /\ IF r.err = "None"
                    THEN /\ rows' = WriteRows(rows, r.msgs)
                         /\ emitted' = Append(emitted, r.msgs)
                    ELSE UNCHANGED <<rows, emitted>>
    /\ searches' = IssueSearch(searches, runsQueries,
                               SearchRequest("", resources[resIdx + 1].name))
    /\ answers' = Append(answers, searchResults')
    /\ resIdx' = resIdx + 1
    /\ UNCHANGED <<checker, qpWithUa, phase, initErr, usage, fieldsWithUa,
                   runsQueries>>
    /\ UNCHANGED <<allQps, resources, compared, again>>
    /\ UNCHANGED pagedVars
    /\ UNCHANGED runVars

InitField ==
    /\ InitPagedIdle
    /\ InitRunIdle
    /\ allQps = <<>>
    /\ resources = <<>>
    /\ resIdx = 0
    /\ msgs = <<>>
    /\ compared = <<>>
    /\ checkErr = "None"
    /\ again = NotRun
    /\ rows = <<Header>>
    /\ emitted = <<>>
    /\ phase = "opened"
    /\ initErr = "None"
    /\ \/ /\ checker = "CheckField"
          /\ usage \in {PyFalse}
                \cup {PyList(u) : u \in UNION {[1..n -> UsageRecords] :
                                                  n \in 0..MaxUsage}}
       \/ /\ checker = "CheckQp"
          /\ usage \in {PyFalse}
                \cup {PyList(u) : u \in UNION {[1..n -> QpUsageRecords] :
                                                  n \in 0..MaxUsage}}
    /\ qpWithUa = PyNone
    /\ fieldsWithUa = PyNone
    /\ searchResults = PyNone
    /\ runsQueries = TRUE
    /\ queryCount = 0
    /\ searches = <<>>
    /\ answers = <<>>

NextField == QpInitialize \/ FieldInitialize \/ FieldCheckNext

SpecField == InitField /\ [][NextField]_vars

(***************************************************************************)
(* runQuery on its own: a checker built with or without runsQueries calls  *)
(* runQuery for each of a list of query parameters.  resources holds the   *)
(* list and resIdx counts the calls made.                                  *)
(***************************************************************************)
QueryParams ==
    {SearchRequest("", <<"@", "author">>), SearchRequest("qpA", <<"title">>)}

RunQuery ==
    /\ phase = "query"
    /\ resIdx < Len(resources)
    /\ \E http \in SearchResponses :
          LET sr == runQuery(runsQueries, http) IN
          /\ searchResults' = sr
          /\ queryCount' = queryCountAfter(runsQueries, queryCount, sr)
    /\ searches' = IssueSearch(searches, runsQueries, resources[resIdx + 1])
    /\ answers' = Append(answers, searchResults')
    /\ resIdx' = resIdx + 1
    /\ UNCHANGED <<checker, qpWithUa, phase, initErr, usage, fieldsWithUa,
                   runsQueries>>
    /\ UNCHANGED <<allQps, resources, msgs, compared, checkErr, again, rows,
                   emitted>>
    /\ UNCHANGED pagedVars
    /\ UNCHANGED runVars

\* CheckResource.__init__: queryCount is None, or 0 for a checker that runs
\* queries.
InitQuery ==
    /\ InitPagedIdle
    /\ InitRunIdle
    /\ allQps = <<>>
    /\ resources \in UNION {[1..n -> QueryParams] : n \in 0..MaxCalls}
    /\ resIdx = 0
    /\ msgs = <<>>
    /\ compared = <<>>
    /\ checkErr = "None"
    /\ again = NotRun
    /\ rows = <<>>
    /\ emitted = <<>>
    /\ checker = "None"
    /\ qpWithUa = PyNone
    /\ phase = "query"
    /\ initErr = "None"
    /\ usage = PyNone
    /\ fieldsWithUa = PyNone
    /\ searchResults = PyNone
    /\ runsQueries \in BOOLEAN
    /\ queryCount = IF runsQueries THEN 0 ELSE "None"
    /\ searches = <<>>
    /\ answers = <<>>

NextQuery == RunQuery

SpecQuery == InitQuery /\ [][NextQuery]_vars

(***************************************************************************)
(* CheckQp.checkOne (resourcesPrivate.py): the rule evaluator of a query   *)
(* pipeline.  A definition is a sequence of tokens in which Backtick is    *)
(* the backtick and "\n" a newline, as <<"filter aq ", Backtick,           *)
(* "@source==", "1", Backtick>>.  remote holds what the platform lists for *)
(* the pipeline: the value of the fetch of its statements and of its ML    *)
(* associations.                                                           *)
(***************************************************************************)
NotUsed == "NOT USED FOR AT LEAST 60 DAYS."
CannotSearchExp == "CANNOT GET SEARCH RESULTS FOR QUERY EXPRESSION"
NoMatchIndex == "QUERY EXPRESSION DOES NOT MATCH ANY CONTENT IN THE INDEX"
NoMatchPipeline == "QUERY EXPRESSION DOES NOT MATCH ANY CONTENT IN THIS QUERY PIPELINE"
StmtWarning == "warning"
NoMlModels == "NO ML MODELS"
UnrecognizedMl == "HAS UNRECOGNIZED ML TYPE"
RankingAbove == "RANKING MODIFIER ABOVE RECOMMENDED VALUE"
MaxRecommendationsAbove == "MAX RECOMMENDATIONS ABOVE RECOMMENDED VALUE"
SameMlCondition == "RUNS ON SAME CONDITION AS OTHER mlmodel"

\* The recommended values of the ML associations.
ArtRankingModifier == 250
ArtMaxRecommendations == 5
QsMaxRecommendations == 10
CrRankingModifier == 1000
DneRankingModifier == 50

\* addMsg of CheckQp.checkOne.
QpMessage(qp, reason) == [name |-> qp.name, id |-> qp.id, reason |-> reason]

\* stmt['definition'].replace('\n', ' ')
ReplaceNewlines(definition) ==
    [k \in 1..Len(definition) |->
        IF definition[k] = "\n" THEN " " ELSE definition[k]]

\* The token of a backtick.
Backtick == "backtick"

\* definition.split(backtick): the segments between the backticks.
RECURSIVE SplitAt(_, _, _)
SplitAt(rest, segment, segments) ==
    IF rest = <<>> THEN Append(segments, segment)
    ELSE IF Head(rest) = Backtick
            THEN SplitAt(Tail(rest), <<>>, Append(segments, segment))
    ELSE SplitAt(Tail(rest), Append(segment, Head(rest)), segments)

Split(definition) == SplitAt(definition, <<>>, <<>>)

\* The segments at the odd indices of the split, counted from 0.
queryExpSeqEven(definition) ==
    LET segments == Split(definition) IN
    [k \in 1..((Len(segments) + 1) \div 2) |-> segments[2 * k - 1]]

queryExpSeq(definition) ==
    LET segments == Split(definition) IN
    [k \in 1..(Len(segments) \div 2) |-> segments[2 * k]]

SearchedFeatures == {"filter", "ranking", "top"}

\* The empty pipeline for a filter, else the pipeline of the statement.
TargetQp(stmt, qp) == IF stmt.feature # "filter" THEN qp.name ELSE ""

\* The search used another pipeline than the target one.
UsedOtherPipelineStrict(sr, targetQp) == sr.pipeline # targetQp

UsedOtherPipeline(sr, targetQp) ==
    sr.pipeline # targetQp /\ ~(sr.pipeline = "empty" /\ targetQp = "")

\* The loop over the expressions of one statement.  acc holds the messages,
\* the searches sent, the values returned, the count of the queries and the
\* exception raised, if any.
RECURSIVE ExpLoop(_, _, _, _, _, _)
ExpLoop(qp, definition, targetQp, exps, https, acc) ==
    IF exps = <<>> THEN acc
    ELSE LET sr == runQuery(TRUE, Head(https))
             sent1 == [acc EXCEPT
                          !.searches = IssueSearch(@, TRUE,
                                          SearchRequest(targetQp, Head(exps))),
                          !.answers = Append(@, sr),
                          !.count = queryCountAfter(TRUE, @, sr)]
             M(text) == QpMessage(qp, Reason(text, 0, <<>>, <<definition>>))
         IN  IF sr.kind = "False"
                THEN ExpLoop(qp, definition, targetQp, Tail(exps), Tail(https),
                             [sent1 EXCEPT !.msgs =
                                 Append(@, M(CannotSearchExp))])
             ELSE IF sr.kind = "True"
                THEN [sent1 EXCEPT !.err = "TypeError"]
             ELSE IF UsedOtherPipeline(sr, targetQp)
                THEN sent1
             ELSE ExpLoop(qp, definition, targetQp, Tail(exps), Tail(https),
                          IF sr.totalCount < 1
                          THEN [sent1 EXCEPT !.msgs =
                                   Append(@, M(IF targetQp = ""
                                               THEN NoMatchIndex
                                               ELSE NoMatchPipeline))]
                          ELSE sent1)

\* The expressions the statements hold, the statements of the other features
\* left out.
RECURSIVE NumExps(_)
NumExps(stmts) ==
    IF stmts = <<>> THEN 0
    ELSE (IF Head(stmts).feature \in SearchedFeatures
          THEN Len(queryExpSeq(ReplaceNewlines(Head(stmts).definition)))
          ELSE 0) + NumExps(Tail(stmts))

\* The loop over the statements.
RECURSIVE StmtLoop(_, _, _, _)
StmtLoop(qp, stmts, https, acc) ==
    IF stmts = <<>> \/ acc.err # "None" THEN acc
    ELSE LET stmt == Head(stmts)
             definition == ReplaceNewlines(stmt.definition)
             warned == [acc EXCEPT !.msgs = @ \o
                          [k \in 1..Len(stmt.warnings) |->
                              QpMessage(qp, Reason(StmtWarning, 0,
                                                   <<stmt.warnings[k]>>,
                                                   <<definition>>))]]
             exps == IF stmt.feature \in SearchedFeatures
                     THEN queryExpSeq(definition) ELSE <<>>
         IN  StmtLoop(qp, Tail(stmts),
                      SubSeq(https, Len(exps) + 1, Len(https)),
                      ExpLoop(qp, definition, TargetQp(stmt, qp), exps,
                              SubSeq(https, 1, Len(exps)), warned))

RecognizedEngines ==
    {"topclicks", "querysuggest", "eventrecommendation", "facetsense",
     "mlquestionanswering"}

\* ml.get('condition', 'NO CONDITION')
MlCondition(ml) == IF ml.condition = "None" THEN "NO CONDITION" ELSE ml.condition

\* 2 models of the same type with the same condition or no condition.
SameMlAnyEngine(ml, ml2) == MlCondition(ml) = MlCondition(ml2)

SameMl(ml, ml2) ==
    ml.modelEngine = ml2.modelEngine /\ MlCondition(ml) = MlCondition(ml2)

\* for j in range(i + 1, len(mlAssoc)), with indices from 1.
MlPairsOf(i, n) == [m \in 1..(n - i) |-> <<i, i + m>>]

\* The messages about the association i: its own settings, then its pairs.
MlMsgs(qp, mlAssoc, i) ==
    LET ml == mlAssoc[i]
        mlType == ml.modelEngine
        M(text, count, names) ==
            <<QpMessage(qp, Reason(text, count, <<ml.modelDisplayName>> \o names,
                                   <<>>))>>
        pairs == MlPairsOf(i, Len(mlAssoc))
        same == SelectSeq(pairs, LAMBDA ij : SameMl(ml, mlAssoc[ij[2]]))
    IN  (IF mlType \notin RecognizedEngines
            THEN M(UnrecognizedMl, 0, <<>>) ELSE <<>>)
        \o (IF mlType = "topclicks" /\ ml.rankingModifier > ArtRankingModifier
            THEN M(RankingAbove, ml.rankingModifier, <<>>) ELSE <<>>)
        \o (IF mlType = "topclicks" /\ ml.maxRecommendations > ArtMaxRecommendations
            THEN M(MaxRecommendationsAbove, ml.maxRecommendations, <<>>) ELSE <<>>)
        \o (IF mlType = "querysuggest" /\ ml.maxRecommendations > QsMaxRecommendations
            THEN M(MaxRecommendationsAbove, ml.maxRecommendations, <<>>) ELSE <<>>)
        \o (IF mlType = "eventrecommendation" /\ ml.rankingModifier > CrRankingModifier
            THEN M(RankingAbove, ml.rankingModifier, <<>>) ELSE <<>>)
        \o (IF mlType = "facetsense" /\ ml.rankingModifier > DneRankingModifier
            THEN M(RankingAbove, ml.rankingModifier, <<>>) ELSE <<>>)
        \o [k \in 1..Len(same) |->
               QpMessage(qp, Reason(SameMlCondition, 0,
                                    <<ml.modelDisplayName,
                                      mlAssoc[same[k][2]].modelDisplayName>>,
                                    <<>>))]

\* The loop over the associations, from the association i on: the messages
\* and the pairs compared.
RECURSIVE MlLoop(_, _, _)
MlLoop(qp, mlAssoc, i) ==
    IF i > Len(mlAssoc) THEN [msgs |-> <<>>, compared |-> <<>>]
    ELSE LET rest == MlLoop(qp, mlAssoc, i + 1) IN
         [msgs |-> MlMsgs(qp, mlAssoc, i) \o rest.msgs,
          compared |-> MlPairsOf(i, Len(mlAssoc)) \o rest.compared]

\* CheckQp.checkOne, given the values the two fetches returned and the
\* responses of the search API.  A fetch that returned False raises: a
\* False is not iterable and has no length.
QpCheckOne(qp, aux, statements, mlAssoc, https, count) ==
    LET start == [msgs |-> IF ~InSeq(qp.name, aux)
                           THEN <<QpMessage(qp, Reason(NotUsed, 0, <<>>, <<>>))>>
                           ELSE <<>>,
                  searches |-> <<>>, answers |-> <<>>, count |-> count,
                  err |-> "None", compared |-> <<>>]
    IN  IF statements.kind = "False" THEN [start EXCEPT !.err = "TypeError"]
        ELSE LET sl == StmtLoop(qp, statements.array, https, start) IN
             IF sl.err # "None" THEN sl
             ELSE IF mlAssoc.kind = "False" THEN [sl EXCEPT !.err = "TypeError"]
             ELSE LET ml == MlLoop(qp, mlAssoc.array, 1) IN
                  [sl EXCEPT
                      !.msgs = @ \o (IF Len(mlAssoc.array) < 1
                                     THEN <<QpMessage(qp, Reason(NoMlModels, 0,
                                                                 <<>>, <<>>))>>
                                     ELSE <<>>)
                                 \o ml.msgs,
                      !.compared = ml.compared]

\* The responses of the search API to a search of the pipeline.
QpSearchResponses(name) ==
    {[status |-> StatusError, empty |-> FALSE, array |-> <<>>, totalPages |-> 0,
      totalCount |-> 0, pipeline |-> "None"],
     [status |-> StatusOK, empty |-> TRUE, array |-> <<>>, totalPages |-> 0,
      totalCount |-> 0, pipeline |-> "None"]}
    \cup
    {[status |-> StatusOK, empty |-> FALSE, array |-> <<>>, totalPages |-> 0,
      totalCount |-> n, pipeline |-> pl] : n \in {0, 1}, pl \in {"empty", name}}

\* One iteration of check()'s loop over the pipelines: checkOne of the next
\* pipeline, with its two fetches and its searches, its messages written.
QpCheckNext ==
    /\ phase = "loaded"
    /\ checker = "CheckQp"
    /\ resIdx < Len(resources)
    /\ checkErr = "None"
    /\ LET qp == resources[resIdx + 1]
           n == IF remote.statements.kind = "False" THEN 0
                ELSE NumExps(remote.statements.array)
       IN  \E https \in [1..n -> QpSearchResponses(qp.name)] :
              \E r \in {QpCheckOne(qp, qpWithUa.array, remote.statements,
                                   remote.rules, https, queryCount)} :
                  /\ checkErr' = r.err
                  /\ queryCount' = r.count
                  /\ searches' = searches \o r.searches
                  /\ answers' = answers \o r.answers
                  /\ searchResults' = IF r.answers = <<>> THEN searchResults
                                      ELSE r.answers[Len(r.answers)]
                  /\ compared' = r.compared
                  /\ IF r.err = "None"
                        THEN /\ msgs' = r.msgs
                             /\ rows' = WriteRows(rows, r.msgs)
                             /\ emitted' = Append(emitted, r.msgs)
                        ELSE /\ msgs' = <<>>
                             /\ UNCHANGED <<rows, emitted>>
    /\ resIdx' = resIdx + 1
    /\ UNCHANGED <<checker, qpWithUa, phase, initErr, usage, fieldsWithUa,
                   runsQueries>>
    /\ UNCHANGED <<allQps, resources, again>>
    /\ UNCHANGED pagedVars
    /\ UNCHANGED runVars

\* The statements and the ML associations the platform may list for the
\* pipeline.  The k-th statement holds the k-th tag in its expressions and
\* the k-th association has the k-th display name.
QpStatement(feature, definition, warnings) ==
    [feature |-> feature, definition |-> definition, warnings |-> warnings]

QpStmtKinds == {"filter", "ranking", "top", "trigger"}

QpStmtOf(kind, tag) ==
    CASE kind = "filter" ->
            QpStatement("filter",
                        <<"filter aq ", Backtick, "@source==", tag, Backtick>>,
                        <<>>)
      [] kind = "ranking" ->
            QpStatement("ranking",
                        <<"boost ", Backtick, "@title/=", tag, Backtick,
                          " by 10">>, <<>>)
      [] kind = "top" ->
            QpStatement("top",
                        <<"top ", Backtick, "@urihash==", tag, Backtick, ", ",
                          Backtick, "@title==", tag, Backtick>>, <<>>)
      [] OTHER ->
            QpStatement("trigger",
                        <<"query ", "\n", Backtick, "@x==", tag, Backtick>>,
                        <<"deprecated">>)

QpStatementLists ==
    UNION {{[k \in 1..n |-> QpStmtOf(kinds[k], Tags[k])] :
               kinds \in [1..n -> QpStmtKinds]} : n \in 0..MaxQpStmts}

MlAssociation(name, engine, condition, over) ==
    [modelDisplayName |-> name, modelEngine |-> engine, condition |-> condition,
     rankingModifier |-> IF over THEN ArtRankingModifier + 1
                         ELSE ArtRankingModifier,
     maxRecommendations |-> IF over THEN QsMaxRecommendations + 1
                            ELSE ArtMaxRecommendations]

MlEngines == {"topclicks", "querysuggest", "custom"}

\* The engine, the condition and whether the settings are above the
\* recommended values.
MlKinds ==
    {<<"topclicks", "None", FALSE>>, <<"topclicks", "c1", TRUE>>,
     <<"querysuggest", "None", TRUE>>, <<"querysuggest", "c1", FALSE>>,
     <<"custom", "None", FALSE>>}

MlAssociationLists ==
    UNION {{[k \in 1..n |->
                MlAssociation(Tags[k], kinds[k][1], kinds[k][2], kinds[k][3])] :
               kinds \in [1..n -> MlKinds]} : n \in 0..MaxAssoc}

\* The pipeline qpA is loaded; the platform lists statements and no
\* association, or associations and no statement, or fails one fetch.
InitQp ==
    /\ arrayKey = "None"
    /\ pageCountKey = "None"
    /\ startPage = 0
    /\ e = EndpointParams
    /\ currPageNum = 0
    /\ currResponse = PyNone
    /\ totalResponse = <<>>
    /\ pc = "returned"
    /\ result = PyNone
    /\ sent = <<>>
    /\ wire = <<>>
    /\ served = <<>>
    /\ endpoint = "stable"
    /\ \/ \E l \in QpStatementLists :
             remote = [qps |-> <<>>, conditions |-> <<>>,
                       statements |-> PyList(l), rules |-> PyList(<<>>)]
       \/ \E l \in MlAssociationLists :
             remote = [qps |-> <<>>, conditions |-> <<>>,
                       statements |-> PyList(<<>>), rules |-> PyList(l)]
       \/ \E l \in QpStatementLists :
             /\ Len(l) <= 1
             /\ remote \in {[qps |-> <<>>, conditions |-> <<>>,
                             statements |-> PyFalse, rules |-> PyList(<<>>)],
                            [qps |-> <<>>, conditions |-> <<>>,
                             statements |-> PyList(l), rules |-> PyFalse]}
    /\ InitRunIdle
    /\ allQps = <<>>
    /\ resources = <<[name |-> "qpA", id |-> "idA"]>>
    /\ resIdx = 0
    /\ msgs = <<>>
    /\ compared = <<>>
    /\ checkErr = "None"
    /\ again = NotRun
    /\ rows = <<Header>>
    /\ emitted = <<>>
    /\ checker = "CheckQp"
    /\ qpWithUa \in {PyList(<<>>), PyList(<<"qpA">>)}
    /\ phase = "loaded"
    /\ initErr = "None"
    /\ usage = PyNone
    /\ fieldsWithUa = PyNone
    /\ searchResults = PyNone
    /\ runsQueries = TRUE
    /\ queryCount = 0
    /\ searches = <<>>
    /\ answers = <<>>

NextQp == QpCheckNext

SpecQp == InitQp /\ [][NextQp]_vars

(***************************************************************************)
(* One run of the process: start() (org_health_check.py) passes the keys   *)
(* to resources.check (resources.py), which runs check() of one class, or  *)
(* of every class (resourcesPrivate.py).  The classes of the registry are  *)
(* CheckIpe and CheckSource.                                               *)
(***************************************************************************)
\* The keys of the types dict, in insertion order.
TypeKeys == <<"all", "ipe", "source">>

\* types[k] is not None
IsClass(k) == k # "all"

\* The order of the keys as strings.
KeyRank(k) == CASE k = "all" -> 1 [] k = "ipe" -> 2 [] k = "source" -> 3

Range(seq) == {seq[i] : i \in 1..Len(seq)}

\* sorted(set(keys))
RECURSIVE Sorted(_)
Sorted(keys) ==
    IF keys = {} THEN <<>>
    ELSE LET first == CHOOSE x \in keys : \A y \in keys : KeyRank(x) <= KeyRank(y)
         IN  <<first>> \o Sorted(keys \ {first})

\* rToCheck, as start() computes it.
ToCheckAsGiven(resource) ==
    IF "all" \in Range(resource) THEN Sorted(Range(TypeKeys)) ELSE resource

ToCheck(resource) ==
    IF "all" \in Range(resource) THEN Sorted(Range(TypeKeys))
    ELSE Sorted(Range(resource))

\* The classes resources.check(rKey) runs, in order.
ClassesOf(rKey) ==
    IF ~IsClass(rKey) THEN SelectSeq(TypeKeys, IsClass) ELSE <<rKey>>

\* The values initialize() may return: False when the fetch failed, True
\* for an empty body of the extensions' list, or the list of the resources.
\* An extension is known by its id.  A source is of a type other than
\* SITEMAP and WEB2, so that its checkOne fetches its schedules only; its
\* findings are the messages of the rules on its own fields.
Sources ==
    [id : {"s"}, pushEnabled : BOOLEAN,
     findings : {<<>>, <<"NO DOCUMENTS">>}]

LoadOutcomes(rKey) ==
    IF rKey = "ipe"
    THEN {PyFalse, PyTrue}
         \cup {PyList([k \in 1..n |-> [id |-> k]]) : n \in 0..MaxRes}
    ELSE {PyFalse}
         \cup {PyList(l) : l \in UNION {[1..n -> Sources] : n \in 0..MaxRes}}

\* The detail of an extension, as the API returns it.
IpeDetail(enabled, usedBy, duration, timeout, likeliness, isFloat, avgMillis, content) ==
    [kind |-> "json", name |-> "ext", id |-> "e", enabled |-> enabled,
     usedBy |-> usedBy, durationHealth |-> duration,
     timeoutHealth |-> timeout, timeoutLikeliness |-> likeliness,
     isFloat |-> isFloat, avgMillis |-> avgMillis, content |-> content]

\* A failed fetch, or an empty body, in place of a detail.
NoDetail(kind) ==
    [kind |-> kind, name |-> "", id |-> "", enabled |-> FALSE, usedBy |-> 0,
     durationHealth |-> "", timeoutHealth |-> "", timeoutLikeliness |-> "",
     isFloat |-> FALSE, avgMillis |-> 0, content |-> {}]

IpeDetails ==
    {IpeDetail(TRUE, 1, "GOOD", "GOOD", "NONE", TRUE, 100, {}),
     IpeDetail(FALSE, 0, "GOOD", "GOOD", "NONE", FALSE, 0, {}),
     IpeDetail(TRUE, 1, "BAD", "BAD", "HIGH", TRUE, 300, {"add_allowed"})}

permissionsFuncs ==
    {"clear_permissions", "add_allowed", "add_denied", "set_permissions"}

\* CheckIpe.checkOne, given the value of the detail fetch: subscripting
\* False or True raises TypeError.
IpeCheckOne(ipe, d) ==
    LET M(text, value) ==
            <<[name |-> d.name, id |-> d.id,
               reason |-> Reason(text, 0, <<value>>, <<>>)]>>
    IN  IF d.kind # "json" THEN [msgs |-> <<>>, err |-> "TypeError"]
        ELSE [msgs |->
                 (IF ~d.enabled THEN M("DISABLED", "") ELSE <<>>)
                 \o (IF d.usedBy < 1 THEN M("NOT USED BY ANY SOURCE", "") ELSE <<>>)
                 \o (IF d.durationHealth # "GOOD"
                        THEN M("HEALTH INDICATOR", d.durationHealth) ELSE <<>>)
                 \o (IF d.timeoutHealth # "GOOD"
                        THEN M("TIMEOUT INDICATOR", d.timeoutHealth) ELSE <<>>)
                 \o (IF d.timeoutLikeliness # "NONE"
                        THEN M("TIMEOUT LIKELINESS", d.timeoutLikeliness) ELSE <<>>)
                 \o (IF d.isFloat /\ d.avgMillis > AvgDurationMillis
                        THEN M("AVERAGE TIMEOUT HIGH", "") ELSE <<>>)
                 \o (IF d.content \cap permissionsFuncs # {}
                        THEN M("IPE MODIFIES PERMISSIONS", "") ELSE <<>>),
              err |-> "None"]

\* The schedules of a source, as the API returns them.
Schedules(kind, rescan, rebuild) ==
    [kind |-> kind, rescan |-> rescan, rebuild |-> rebuild]

\* CheckSource.checkOne, given the value of the schedules fetch: a source
\* that is not a push source iterates over it, which raises TypeError for
\* False or True.
SourceCheckOne(source, d) ==
    LET M(text) ==
            <<[name |-> "src", id |-> source.id,
               reason |-> Reason(text, 0, <<>>, <<>>)]>>
        own == IF source.findings = <<>> THEN <<>> ELSE M(source.findings[1])
    IN  IF source.pushEnabled THEN [msgs |-> own, err |-> "None"]
        ELSE IF d.kind # "json" THEN [msgs |-> <<>>, err |-> "TypeError"]
        ELSE [msgs |-> own
                 \o (IF ~d.rescan THEN M("SCHEDULED RESCAN DISABLED") ELSE <<>>)
                 \o (IF d.rebuild THEN M("SCHEDULED REBUILD ENABLED") ELSE <<>>),
              err |-> "None"]

\* The values the per-item fetch of a class's checkOne may return.
DetailOutcomes(rKey) ==
    IF rKey = "ipe"
    THEN {NoDetail("False"), NoDetail("True")} \cup IpeDetails
    ELSE {Schedules("False", FALSE, FALSE)}
         \cup {Schedules("json", a, b) : a \in BOOLEAN, b \in BOOLEAN}

CheckOneOf(rKey, res, d) ==
    IF rKey = "ipe" THEN IpeCheckOne(res, d) ELSE SourceCheckOne(res, d)

\* start(): the keys to check.
Start ==
    /\ proc = "args"
    /\ rToCheck' = ToCheck(requested)
    /\ proc' = "running"
    /\ UNCHANGED <<requested, runIdx, classQueue, curType, detail, events, raised>>
    /\ UNCHANGED <<pagedVars, condVars, fieldVars>>

\* resources.check(r) of the next key: the classes it is to run.
Dispatch ==
    /\ proc = "running"
    /\ curType = "None"
    /\ classQueue = <<>>
    /\ runIdx < Len(rToCheck)
    /\ runIdx' = runIdx + 1
    /\ classQueue' = ClassesOf(rToCheck[runIdx + 1])
    /\ UNCHANGED <<requested, rToCheck, curType, detail, events, raised, proc>>
    /\ UNCHANGED <<pagedVars, condVars, fieldVars>>

\* check() of the next class begins: the writer is created and the header
\* row written.
Open ==
    /\ proc = "running"
    /\ curType = "None"
    /\ classQueue # <<>>
    /\ curType' = Head(classQueue)
    /\ classQueue' = Tail(classQueue)
    /\ events' = Append(events, <<"start", Head(classQueue)>>)
    /\ phase' = "opened"
    /\ rows' = WriteRow(<<>>, Header)
    /\ emitted' = <<>>
    /\ resources' = <<>>
    /\ resIdx' = 0
    /\ msgs' = <<>>
    /\ checkErr' = "None"
    /\ UNCHANGED <<requested, rToCheck, runIdx, detail, raised, proc>>
    /\ UNCHANGED <<allQps, compared, again>>
    /\ UNCHANGED <<checker, qpWithUa, initErr, usage, fieldsWithUa,
                   searchResults, queryCount, runsQueries, searches,
                   answers>>
    /\ UNCHANGED pagedVars

\* initialize() and len(resources): len of False or True raises TypeError.
Load ==
    /\ proc = "running"
    /\ curType # "None"
    /\ phase = "opened"
    /\ \E out \in LoadOutcomes(curType) :
          IF out.kind = "list"
          THEN /\ resources' = out.array
               /\ phase' = "loaded"
               /\ events' = Append(events, <<"load", curType>>)
               /\ UNCHANGED raised
          ELSE /\ phase' = "raised"
               /\ events' = Append(events, <<"loadfailed", curType>>)
               /\ raised' = Append(raised, "TypeError")
               /\ UNCHANGED resources
    /\ UNCHANGED <<requested, rToCheck, runIdx, classQueue, curType, detail, proc>>
    /\ UNCHANGED <<allQps, resIdx, msgs, compared, checkErr, again, rows, emitted>>
    /\ UNCHANGED <<checker, qpWithUa, initErr, usage, fieldsWithUa,
                   searchResults, queryCount, runsQueries, searches,
                   answers>>
    /\ UNCHANGED pagedVars

\* One iteration of check()'s loop: checkOne of the next resource, with its
\* per-item fetch, and its messages written.
Eval ==
    /\ proc = "running"
    /\ curType # "None"
    /\ phase = "loaded"
    /\ resIdx < Len(resources)
    /\ \E d \in DetailOutcomes(curType) :
          LET r == CheckOneOf(curType, resources[resIdx + 1], d) IN
          /\ detail' = d
          /\ msgs' = r.msgs
          /\ checkErr' = r.err
          /\ IF r.err = "None"
                THEN /\ rows' = WriteRows(rows, r.msgs)
                     /\ emitted' = Append(emitted, r.msgs)
                     /\ UNCHANGED <<phase, raised>>
                ELSE /\ phase' = "raised"
                     /\ raised' = Append(raised, r.err)
                     /\ UNCHANGED <<rows, emitted>>
    /\ resIdx' = resIdx + 1
    /\ events' = Append(events, <<"eval", curType>>)
    /\ UNCHANGED <<requested, rToCheck, runIdx, classQueue, curType, proc>>
    /\ UNCHANGED <<allQps, resources, compared, again>>
    /\ UNCHANGED <<checker, qpWithUa, initErr, usage, fieldsWithUa,
                   searchResults, queryCount, runsQueries, searches,
                   answers>>
    /\ UNCHANGED pagedVars

\* The finally clause of check(), after the loop or after an exception:
\* writer.f.close().  A CsvWriter has the attributes fileName, fileDesc and
\* w and no attribute f, so the clause raises AttributeError, which leaves
\* check(), resources.check() and start().
Close ==
    /\ proc = "running"
    /\ curType # "None"
    /\ \/ phase = "raised"
       \/ phase = "loaded" /\ resIdx = Len(resources)
    /\ raised' = Append(raised, "AttributeError")
    /\ events' = Append(events, <<"end", curType>>)
    /\ phase' = "closed"
    /\ curType' = "None"
    /\ proc' = "aborted"
    /\ UNCHANGED <<requested, rToCheck, runIdx, classQueue, detail>>
    /\ UNCHANGED condVars
    /\ UNCHANGED <<checker, qpWithUa, initErr, usage, fieldsWithUa,
                   searchResults, queryCount, runsQueries, searches,
                   answers>>
    /\ UNCHANGED pagedVars

\* The keys of the command line: one or more of 'all' and the keys of types.
InitRun ==
    /\ InitPagedIdle
    /\ InitCondIdle
    /\ requested \in UNION {[1..n -> Range(TypeKeys)] : n \in 1..MaxRequest}
    /\ rToCheck = <<>>
    /\ runIdx = 0
    /\ classQueue = <<>>
    /\ curType = "None"
    /\ detail = PyNone
    /\ events = <<>>
    /\ raised = <<>>
    /\ proc = "args"
    /\ checker = "None"
    /\ qpWithUa = PyNone
    /\ phase = "idle"
    /\ initErr = "None"
    /\ usage = PyNone
    /\ fieldsWithUa = PyNone
    /\ searchResults = PyNone
    /\ runsQueries = FALSE
    /\ queryCount = "None"
    /\ searches = <<>>
    /\ answers = <<>>

NextRun == Start \/ Dispatch \/ Open \/ Load \/ Eval \/ Close

SpecRun == InitRun /\ [][NextRun]_vars

(***************************************************************************)
(* Properties of CheckField.                                               *)
(***************************************************************************)
\* The field the last checkOne evaluated.
LastField == resources[resIdx]

HasFacetAdvisory == MsgsWith(FacetUnused) # {}

FacetCandidate(field) ==
    field.groupByField /\ typeMap(field.fieldType) \notin AlwaysFacet

\* C11 as stated: a field with groupByField = true whose resolved type is
\* not exempt and whose name is absent from the facet usage set gets the
\* 'Facet but not used as facet' advisory; the same field with its name in
\* the set gets none.
C11_FacetUsage ==
    (checker = "CheckField" /\ phase = "loaded" /\ resIdx >= 1) =>
        /\ (FacetCandidate(LastField)
              /\ ~InSeq(LastField.name, fieldsWithUa.array)) => HasFacetAdvisory
        /\ InSeq(LastField.name, fieldsWithUa.array) => ~HasFacetAdvisory

\* C11, amended: the same, for a field whose search returned at least one
\* result.
C11_FacetUsageWhenIndexed ==
    (checker = "CheckField" /\ phase = "loaded" /\ resIdx >= 1
       /\ searchResults.kind = "json"
       /\ searchResults.totalCount >= 1) =>
        /\ (FacetCandidate(LastField)
              /\ ~InSeq(LastField.name, fieldsWithUa.array)) => HasFacetAdvisory
        /\ InSeq(LastField.name, fieldsWithUa.array) => ~HasFacetAdvisory

\* C11's case: an indexed facet of type String whose name is in no usage
\* record gets the advisory.
C11_Witness ==
    /\ checker = "CheckField"
    /\ phase = "loaded"
    /\ resIdx >= 1
    /\ searchResults.kind = "json"
    /\ searchResults.totalCount >= 1
    /\ FacetCandidate(LastField)
    /\ ~LastField.splitGroupByField
    /\ Len(usage.array) >= 1
    /\ ~InSeq(LastField.name, fieldsWithUa.array)
    /\ HasFacetAdvisory

(***************************************************************************)
(* Properties of a run of check().                                         *)
(***************************************************************************)
\* The statements of the working context that carry a saved pipeline.
Annotated ==
    UNION {{<<p, k>> : k \in {m \in 1..Len(allQps[p].statements) :
                                allQps[p].statements[m].qp # NoQp}} :
           p \in 1..Len(allQps)}

\* C12: a second checkOne of the same condition against the same loaded
\* working context, which the first run has annotated with the statements'
\* pipelines, gives exactly the message sequence of the first.
C12_Idempotent ==
    again.ran => (again.msgs = msgs /\ again.err = checkErr)

\* C12's case: the first run annotated two statements and gave messages, and
\* the second run has happened.
C12_Witness ==
    /\ again.ran
    /\ Cardinality(Annotated) >= 2
    /\ Len(msgs) >= 2
    /\ Len(again.msgs) >= 2

\* The concatenation of a sequence of message lists.
RECURSIVE Concat(_)
Concat(lists) ==
    IF lists = <<>> THEN <<>>
    ELSE Concat(SubSeq(lists, 1, Len(lists) - 1)) \o lists[Len(lists)]

\* C14: the rows handed to the writer are the header (name, id, reason) and
\* then every message the checkOne calls returned, each once, in the order
\* of emission.
C14_RowsInOrder ==
    phase = "loaded" =>
        LET flat == Concat(emitted) IN
        /\ Len(rows) = 1 + Len(flat)
        /\ rows[1] = Header
        /\ \A k \in 1..Len(flat) : rows[k + 1] = flat[k]

\* C14's case: both conditions were evaluated, the first gave one message
\* and the second several.
C14_Witness ==
    /\ resIdx = 2
    /\ checkErr = "None"
    /\ Len(emitted) = 2
    /\ Len(emitted[1]) = 1
    /\ Len(emitted[2]) >= 2
    /\ Len(rows) >= 4

\* The positions of the usage records whose occurrence count is not positive.
BadUsage ==
    IF usage.kind = "list"
    THEN {k \in 1..Len(usage.array) : usage.array[k].OccurrenceCount <= 0}
    ELSE {}

FirstBad == CHOOSE k \in BadUsage : \A m \in BadUsage : k <= m

\* C13: when a usage record the Query Pipelines or Fields loader fetched has
\* an occurrence count <= 0, initialize fails with ValueError: the usage set
\* is not built from that record (the pipelines' set is not built at all,
\* the fields' set holds only names of records before it) and no resource
\* of the type is loaded or evaluated.
C13_BadUsageRaises ==
    (phase # "opened" /\ BadUsage # {}) =>
        /\ initErr = "ValueError"
        /\ phase = "raised"
        /\ resources = <<>>
        /\ resIdx = 0
        /\ emitted = <<>>
        /\ queryCount = 0
        /\ checker = "CheckQp" => qpWithUa = PyNone
        /\ checker = "CheckField" =>
              /\ Len(fieldsWithUa.array) < FirstBad
              /\ \A n \in 1..Len(fieldsWithUa.array) :
                    \E k \in 1..(FirstBad - 1) :
                        fieldsWithUa.array[n] = Normalize(usage.array[k].c_facetid)

\* C13's case: the second usage record of the fields has count 0, after a
\* record that was kept, and initialize has raised.
C13_Witness ==
    /\ checker = "CheckField"
    /\ phase = "raised"
    /\ BadUsage = {2}
    /\ usage.array[2].OccurrenceCount = 0
    /\ Len(fieldsWithUa.array) = 1

(***************************************************************************)
(* Properties of a run of the process.                                     *)
(***************************************************************************)
\* The classes whose check() has begun, in order.
Starts ==
    LET begun == SelectSeq(events, LAMBDA ev : ev[1] = "start")
    IN  [k \in 1..Len(begun) |-> begun[k][2]]

HasEvent(kind, rKey) == \E i \in 1..Len(events) : events[i] = <<kind, rKey>>

\* The class of the last checkOne.
LastEvalType ==
    LET evals == SelectSeq(events, LAMBDA ev : ev[1] = "eval")
    IN  IF evals = <<>> THEN "None" ELSE evals[Len(evals)][2]

\* Nothing is left to run.
RunOver ==
    \/ proc = "aborted"
    \/ proc = "running" /\ curType = "None" /\ classQueue = <<>>
          /\ runIdx = Len(rToCheck)

\* The classes the request asks for.
Asked ==
    IF "all" \in Range(requested) THEN {k \in Range(TypeKeys) : IsClass(k)}
    ELSE Range(requested)

\* C15: when the load of a resource type fails, no resource of the type is
\* evaluated, the process is not aborted, and when the run is over the
\* checks of the other requested types have run.
C15_LoadFailureConfined ==
    \A rKey \in {"ipe", "source"} :
        HasEvent("loadfailed", rKey) =>
            /\ ~HasEvent("eval", rKey)
            /\ proc # "aborted"
            /\ RunOver => \A other \in Asked : HasEvent("start", other)

\* C16: when the detail fetch of an extension fails, its checkOne raises
\* nothing, the run is not aborted and, when the check is over, every
\* extension of the list was evaluated.
C16_DetailFailureConfined ==
    (LastEvalType = "ipe" /\ detail.kind = "False") =>
        /\ checkErr = "None"
        /\ proc # "aborted"
        /\ HasEvent("end", "ipe") => resIdx = Len(resources)

\* Every check but the last to begin has ended before the next begins.
OneAtATime ==
    \A i, j \in 1..Len(events) :
        (i < j /\ events[i][1] = "start" /\ events[j][1] = "start") =>
            \E m \in (i + 1)..(j - 1) : events[m] = <<"end", events[i][2]>>

NoRepeat(seq) == \A i, j \in 1..Len(seq) : i # j => seq[i] # seq[j]

C18_EachTypeOnce ==
    RunOver => Starts = Sorted(Asked)

\* The name of a usage record with its '@', and the names that end with an
\* underscore and digits.
WithAt(name) == IF name[1] = "@" THEN name ELSE <<"@">> \o name

EndsWithNumber(name) ==
    Len(name) >= 2 /\ name[Len(name) - 1] = "_" /\ name[Len(name)] \in NumberTokens

KeptRecords == SelectSeq(usage.array, LAMBDA f : ~EndsWithNumber(WithAt(f.c_facetid)))

\* C25: after the loader of the fields, every name of the facet usage list
\* starts with '@', none ends with an underscore and digits, and the list
\* holds the name with '@' of every other usage record.
C25_FacetUsageNames ==
    (checker = "CheckField" /\ phase = "loaded") =>
        /\ \A k \in 1..Len(fieldsWithUa.array) :
              /\ fieldsWithUa.array[k][1] = "@"
              /\ ~EndsWithNumber(fieldsWithUa.array[k])
        /\ fieldsWithUa.array
              = [k \in 1..Len(KeptRecords) |-> WithAt(KeptRecords[k].c_facetid)]

\* C25's case: the loader has run over a record without '@' that is kept
\* and a record with a number suffix that is left out.
C25_Witness ==
    /\ checker = "CheckField"
    /\ phase = "loaded"
    /\ \E j, k \in 1..Len(usage.array) :
          /\ usage.array[j].c_facetid = <<"author">>
          /\ usage.array[k].c_facetid = <<"title", "_", "7">>
    /\ fieldsWithUa.array = <<<<"@", "author">>>>

AdvisoryTexts == {FreeText, Displayable, Sortable, FacetUnused}

\* C29: the evaluation of a field runs one search; a failed search gives
\* the one message 'CANNOT GET SEARCH RESULTS FOR FIELD', a search without
\* results the one message 'FIELD HAS NO VALUE IN THE INDEX', and an
\* advisory is given only when the search reported at least one result.
C29_FieldSearchGate ==
    (checker = "CheckField" /\ phase = "loaded" /\ resIdx >= 1) =>
        /\ queryCount = resIdx
        /\ searchResults.kind = "False" =>
              msgs = <<FieldMessage(LastField.name, typeMap(LastField.fieldType),
                                    CannotSearch)>>
        /\ (searchResults.kind = "json" /\ searchResults.totalCount = 0) =>
              msgs = <<FieldMessage(LastField.name, typeMap(LastField.fieldType),
                                    NoValue)>>
        /\ \A m \in 1..Len(msgs) :
              msgs[m].reason.text \in AdvisoryTexts =>
                  /\ searchResults.kind = "json"
                  /\ searchResults.totalCount >= 1

\* C29's case: a field with a setting that gets an advisory, evaluated with
\* a search without results.
C29_Witness ==
    /\ checker = "CheckField"
    /\ phase = "loaded"
    /\ resIdx >= 1
    /\ LastField.includeInResults
    /\ searchResults.kind = "json"
    /\ searchResults.totalCount = 0
    /\ Len(msgs) = 1

\* C27: with runsQueries, queryCount starts at 0 and is the number of the
\* search requests sent, one for each runQuery call, the failed ones
\* included; without runsQueries, runQuery returns False, sends no search
\* request and leaves queryCount None.
C27_QueryCount ==
    phase = "query" =>
        /\ runsQueries =>
              /\ Len(searches) = resIdx
              /\ queryCount = Len(searches)
              /\ searches = SubSeq(resources, 1, resIdx)
        /\ ~runsQueries =>
              /\ searches = <<>>
              /\ queryCount = "None"
              /\ resIdx >= 1 => searchResults = SearchValue(PyFalse, 0, "None")

\* C27's case: two runQuery calls, the second a failed search, both counted.
C27_Witness ==
    /\ phase = "query"
    /\ runsQueries
    /\ resIdx = 2
    /\ searchResults.kind = "False"
    /\ queryCount = 2

\* C27's other case: a runQuery call of a checker that does not run queries.
C27_WitnessDisabled ==
    /\ phase = "query"
    /\ ~runsQueries
    /\ resIdx >= 1

\* The pipelines listed that are no A/B test copy, by position, and the
\* condition a listed pipeline or statement refers to.
Listed == remote.qps

LivePipes ==
    {p \in 1..Len(Listed) : \A k \in 1..Len(Listed[p].name) :
                                Listed[p].name[k] # "-mirror-"}

RefersTo(x) == IF x.condition = Null THEN noCondition.id ELSE x.condition.id

LiveRefs ==
    {RefersTo(Listed[p]) : p \in LivePipes}
    \cup UNION {{RefersTo(Listed[p].statements[k]) :
                    k \in 1..Len(Listed[p].statements)} : p \in LivePipes}

LiveDefs ==
    UNION {{Listed[p].statements[k].definition :
               k \in 1..Len(Listed[p].statements)} : p \in LivePipes}

\* C28: the working context holds the listed pipelines whose name does not
\* contain '-mirror-', each pipeline and statement without condition on the
\* sentinel; the conditions returned end with the sentinel, which they hold
\* once; and a condition only the copies refer to is reported as not
\* associated, no message naming a copy or one of its statements.
C28_ConditionsLoader ==
    (checker = "CheckCondition" /\ phase = "loaded") =>
        /\ Len(allQps) = Cardinality(LivePipes)
        /\ \A q \in 1..Len(allQps) :
              \E p \in LivePipes :
                  /\ allQps[q].id = Listed[p].id
                  /\ allQps[q].name = Listed[p].name
                  /\ allQps[q].condition.id = RefersTo(Listed[p])
                  /\ Len(allQps[q].statements) = Len(Listed[p].statements)
                  /\ \A k \in 1..Len(allQps[q].statements) :
                        /\ allQps[q].statements[k].condition.id
                              = RefersTo(Listed[p].statements[k])
                        /\ allQps[q].statements[k].definition
                              = Listed[p].statements[k].definition
        /\ resources[Len(resources)] = noCondition
        /\ Cardinality({k \in 1..Len(resources) : resources[k] = noCondition}) = 1
        /\ SubSeq(resources, 1, Len(resources) - 1) = remote.conditions
        /\ (resIdx >= 1 /\ checkErr = "None") =>
              /\ (MsgsWith(NotAssociated) # {}) <=> (LastChecked.id \notin LiveRefs)
              /\ \A m \in 1..Len(msgs) :
                    /\ \A k \in 1..Len(msgs[m].reason.names) :
                          \E p \in LivePipes :
                              Listed[p].name = msgs[m].reason.names[k]
                    /\ \A k \in 1..Len(msgs[m].reason.defs) :
                          msgs[m].reason.defs[k] \in LiveDefs

\* C28's case: only a copy, and two triggers of it, refer to c1; the other
\* pipeline has no condition; c1 was evaluated and is not associated.
C28_Witness ==
    /\ checker = "CheckCondition"
    /\ phase = "loaded"
    /\ Cardinality(LivePipes) = 1
    /\ \E p \in (1..Len(Listed)) \ LivePipes :
          /\ Listed[p].condition = CondC1
          /\ Len(Listed[p].statements) >= 2
          /\ \A k \in 1..Len(Listed[p].statements) :
                Listed[p].statements[k].condition = CondC1
    /\ \E p \in LivePipes : Listed[p].condition = Null
    /\ resIdx = 1
    /\ LastChecked = CondC1
    /\ MsgsWith(NotAssociated) # {}
    /\ Len(msgs) = 1

(***************************************************************************)
(* Properties of CheckQp.checkOne, checked under SpecQp.                   *)
(***************************************************************************)
\* The pipeline checked, its statements as listed, and the positions of the
\* backticks of a definition.
LastQp == resources[resIdx]

QpChecked ==
    checker = "CheckQp" /\ resIdx >= 1 /\ remote.statements.kind = "list"

Listing == remote.statements.array

TickSeq(d) == SelectSeq([k \in 1..Len(d) |-> k], LAMBDA k : d[k] = Backtick)

\* The expression j of the statement k: what stands between the backtick
\* 2j - 1 and the next one.
NumExpressions(k) ==
    IF Listing[k].feature \in {"filter", "ranking", "top"}
    THEN (Len(TickSeq(Listing[k].definition)) + 1) \div 2
    ELSE 0

Expression(k, j) ==
    LET d == Listing[k].definition
        t == TickSeq(d)
    IN  SubSeq(d, t[2 * j - 1] + 1,
               IF 2 * j <= Len(t) THEN t[2 * j] - 1 ELSE Len(d))

PlanSet ==
    UNION {{<<k, j>> : j \in 1..NumExpressions(k)} : k \in 1..Len(Listing)}

Target(k) == IF Listing[k].feature = "filter" THEN "" ELSE LastQp.name

\* The searches sent for the expression j of the statement k, and for
\* every expression of the plan.
LogOf(k, j) ==
    UNION {{i \in 1..Len(searches) : searches[i] = request} :
              request \in {[pipeline |-> Target(k), viewAllContent |-> TRUE,
                            q |-> Expression(k, j)]}}

PlanLog == [kj \in PlanSet |-> LogOf(kj[1], kj[2])]

\* The searches sent for the statement k, given the log of the plan.
LogOfStmt(log, k) == UNION {log[<<k, j>>] : j \in 1..NumExpressions(k)}

OnTarget(a, t) ==
    a.kind = "json" /\ (a.pipeline = t \/ (t = "" /\ a.pipeline = "empty"))

OtherPipeline(a, t) == a.kind = "json" /\ ~OnTarget(a, t)

Before(kj, kj2) == kj[1] < kj2[1] \/ (kj[1] = kj2[1] /\ kj[2] < kj2[2])

\* The messages with the text about the definition of the statement k.
MsgsAbout(k, text) ==
    {m \in 1..Len(msgs) :
        /\ msgs[m].reason.text = text
        /\ msgs[m].reason.defs = <<Listing[k].definition>>}

NoMatchText(k) == IF Target(k) = "" THEN NoMatchIndex ELSE NoMatchPipeline

Reached(log, k, j) ==
    /\ \A i \in 1..Len(answers) :
          answers[i].kind = "True" =>
              \A kj \in PlanSet : i \in log[kj] => ~Before(kj, <<k, j>>)
    /\ j > 1 => /\ log[<<k, j - 1>>] # {}
                /\ \A i \in log[<<k, j - 1>>] :
                      ~OtherPipeline(answers[i], Target(k))

C30_FailureAndOtherPipeline ==
    (QpChecked /\ checkErr = "None") =>
        \A log \in {PlanLog} :
            /\ \A k \in 1..Len(Listing) :
                  /\ Cardinality(MsgsAbout(k, CannotSearchExp))
                        = Cardinality({i \in LogOfStmt(log, k) :
                                          answers[i].kind = "False"})
                  /\ NumExpressions(k) >= 1 =>
                        /\ log[<<k, 1>>] # {}
                        /\ Cardinality({m \in 1..Len(msgs) :
                                           msgs[m].reason.defs
                                              = <<Listing[k].definition>>})
                              = Cardinality({i \in LogOfStmt(log, k) :
                                    \/ answers[i].kind = "False"
                                    \/ /\ OnTarget(answers[i], Target(k))
                                       /\ answers[i].totalCount = 0})
            /\ \A kj \in PlanSet :
                  \A i \in log[kj] :
                      /\ (answers[i].kind = "False"
                            /\ <<kj[1], kj[2] + 1>> \in PlanSet)
                            => log[<<kj[1], kj[2] + 1>>] # {}
                      /\ OtherPipeline(answers[i], Target(kj[1])) =>
                            \A j \in (kj[2] + 1)..NumExpressions(kj[1]) :
                                log[<<kj[1], j>>] = {}

\* C30's case: of two top statements, the first search of the first failed
\* and its second expression was searched; the first search of the second
\* reported another pipeline and its second expression was skipped.
C30_Witness ==
    /\ QpChecked
    /\ checkErr = "None"
    /\ Len(Listing) = 2
    /\ Listing[1].feature = "top"
    /\ Listing[2].feature = "top"
    /\ Len(searches) = 3
    /\ answers[1].kind = "False"
    /\ OnTarget(answers[2], Target(1))
    /\ OtherPipeline(answers[3], Target(2))
    /\ Cardinality(MsgsWith(CannotSearchExp)) = 1

\* The ML associations as listed, and the messages about a pair of them.
Rules == remote.rules.array

SameMlMsgs(i, j) ==
    {m \in 1..Len(msgs) :
        /\ msgs[m].reason.text = SameMlCondition
        /\ msgs[m].reason.names \in
              {<<Rules[i].modelDisplayName, Rules[j].modelDisplayName>>,
               <<Rules[j].modelDisplayName, Rules[i].modelDisplayName>>}}

MlGroup(engine, condition) ==
    {i \in 1..Len(Rules) :
        Rules[i].modelEngine = engine /\ Rules[i].condition = condition}

\* C24: every pair of associations of the pipeline is compared once; a pair
\* gets one 'RUNS ON SAME CONDITION AS OTHER mlmodel' message when its
\* engine types are equal and its conditions are equal or both missing, and
\* none otherwise; k associations of one engine type on one condition get
\* k * (k - 1) / 2 messages.
C24_MlPairs ==
    (checker = "CheckQp" /\ resIdx >= 1 /\ checkErr = "None") =>
        /\ \A i, j \in 1..Len(Rules) :
              i < j =>
                  /\ Cardinality({c \in 1..Len(compared) : compared[c] = <<i, j>>}) = 1
                  /\ Cardinality(SameMlMsgs(i, j))
                        = IF /\ Rules[i].modelEngine = Rules[j].modelEngine
                             /\ Rules[i].condition = Rules[j].condition
                          THEN 1 ELSE 0
        /\ \A c \in 1..Len(compared) : compared[c][1] < compared[c][2]
        /\ \A engine \in MlEngines, condition \in {"None", "c1"} :
              LET k == Cardinality(MlGroup(engine, condition)) IN
              2 * Cardinality(UNION {SameMlMsgs(i, j) :
                                        i, j \in MlGroup(engine, condition)})
                 = k * (k - 1)

\* C24's case: three associations of one engine type, none with a
\* condition, and their three messages.
C24_Witness ==
    /\ checker = "CheckQp"
    /\ resIdx >= 1
    /\ checkErr = "None"
    /\ Len(Rules) = 3
    /\ Cardinality(MlGroup("querysuggest", "None")) = 3
    /\ Cardinality(MsgsWith(SameMlCondition)) = 3

====
